---- MODULE Spec2Model ----
(***************************************************************************)
(* Model of the dynamic report builder backend: the UDF store, the Report  *)
(* Layout store with its report_udfs association table, the Calculation    *)
(* Registry, the report execution engine (run_report, calculate_udf and    *)
(* the registered calculation implementations), and the session scope     *)
(* that get_db puts around every handler.                                  *)
(*                                                                         *)
(* Conventions.  Python strings are TLA+ strings.  A Python value that may *)
(* be None is the string NoneStr when it is None; a dict key that is not   *)
(* set holds Missing.  Scalars that end up in report rows are the records  *)
(* built by I (number), S (string) and Null (None), so that rows can hold  *)
(* values of different Python types.  The description columns and the      *)
(* type/required/format entries of a field are carried by no handler into  *)
(* any decision and are left out.                                          *)
(***************************************************************************)
EXTENDS Integers, Sequences, FiniteSets, TLC

VARIABLES udfs, layouts, report_udfs, CALCULATIONS, last, sessions, txns

vars == <<udfs, layouts, report_udfs, CALCULATIONS, last, sessions, txns>>

\* ------------------------------------------------------------------ bounds
MaxUdfId == 2
MaxLayoutId == 1

\* ------------------------------------------------------------ Python values
NoneStr == "<None>"
Missing == "<missing>"

I(n) == [t |-> "int", i |-> n, s |-> ""]
S(x) == [t |-> "str", i |-> 0, s |-> x]
Null == [t |-> "null", i |-> 0, s |-> ""]
Raised(what) == [t |-> "raise", i |-> 0, s |-> what]

\* bool(v) of a scalar
Truthy(v) ==
    CASE v.t = "int" -> v.i # 0
      [] v.t = "str" -> v.s # ""
      [] OTHER -> FALSE

\* bool(x) of an Optional[str]
StrTruthy(x) == x # NoneStr /\ x # ""

SetMax(ids) == IF ids = {} THEN 0
               ELSE CHOOSE y \in ids : \A z \in ids : z <= y

Range(seq) == {seq[k] : k \in 1..Len(seq)}

RECURSIVE SelectRows(_, _)
SelectRows(rows, keep) ==
    IF rows = <<>> THEN <<>>
    ELSE IF Head(rows) \in keep THEN <<Head(rows)>> \o SelectRows(Tail(rows), keep)
         ELSE SelectRows(Tail(rows), keep)

\* ------------------------------------------------------------ Model Registry
\* The mapped classes: column names in declaration order, and the names of
\* the relationship attributes each class carries besides its columns.
Columns(model_id) ==
    CASE model_id = "deal" ->
           <<"id", "deal_name", "issuer", "deal_date", "total_amount", "currency", "status">>
      [] model_id = "tranche" ->
           <<"id", "deal_id", "tranche_name", "amount", "interest_rate", "maturity_date",
             "seniority">>
      [] model_id = "cashflow" ->
           <<"id", "tranche_id", "payment_date", "principal", "interest", "fees">>

Relationships(model_id) ==
    CASE model_id = "deal" -> {"tranches"}
      [] model_id = "tranche" -> {"deal", "cashflows"}
      [] model_id = "cashflow" -> {"tranche"}

MODEL_REGISTRY == {"deal", "tranche", "cashflow"}

\* get_model_fields: the field descriptors of a model, [] for an unknown id
\* (a descriptor is modelled by its "name").
get_model_fields(model_id) ==
    IF model_id \notin MODEL_REGISTRY THEN <<>> ELSE Columns(model_id)

\* get_model_class: the class (named by its registry key), None if unknown.
get_model_class(model_id) ==
    IF model_id \notin MODEL_REGISTRY THEN NoneStr ELSE model_id

\* ------------------------------------------------------------- Python strings
UpperAlpha == "ABCDEFGHIJKLMNOPQRSTUVWXYZ"
LowerAlpha == "abcdefghijklmnopqrstuvwxyz"

LowerChar(c) ==
    IF \E k \in 1..Len(UpperAlpha) : SubSeq(UpperAlpha, k, k) = c
    THEN LET k == CHOOSE j \in 1..Len(UpperAlpha) : SubSeq(UpperAlpha, j, j) = c
         IN SubSeq(LowerAlpha, k, k)
    ELSE c

\* s.lower(), character by character from position k on
RECURSIVE LowerFrom(_, _)
LowerFrom(s, k) ==
    IF k > Len(s) THEN "" ELSE LowerChar(SubSeq(s, k, k)) \o LowerFrom(s, k + 1)

Lower(s) == LowerFrom(s, 1)

\* sub in s
Contains(sub, s) ==
    \E k \in 1..(Len(s) - Len(sub) + 1) : SubSeq(s, k, k + Len(sub) - 1) = sub

\* s.endswith(suffix)
EndsWith(s, suffix) ==
    Len(suffix) <= Len(s) /\ SubSeq(s, Len(s) - Len(suffix) + 1, Len(s)) = suffix

\* ------------------------------------------------------- financial entities
\* The rows of the deals, tranches and cashflows tables, in the store's
\* natural order.  No handler writes these tables.
Deals ==
    <<[id |-> I(1), deal_name |-> S("Deal 1"), issuer |-> S("Issuer 1"),
       deal_date |-> S("2024-01-01"), total_amount |-> I(1000), currency |-> S("USD"),
       status |-> S("active")],
      [id |-> I(2), deal_name |-> S("Deal 2"), issuer |-> S("Issuer 2"),
       deal_date |-> S("2024-02-01"), total_amount |-> I(500), currency |-> S("USD"),
       status |-> S("closed")]>>

Tranches ==
    <<[id |-> I(1), deal_id |-> I(1), tranche_name |-> S("Tranche 1 of Deal 1"),
       amount |-> I(400), interest_rate |-> I(5), maturity_date |-> S("2030-01-01"),
       seniority |-> S("senior")],
      [id |-> I(2), deal_id |-> I(1), tranche_name |-> S("Tranche 2 of Deal 1"),
       amount |-> I(600), interest_rate |-> I(7), maturity_date |-> S("2031-01-01"),
       seniority |-> S("junior")],
      [id |-> I(3), deal_id |-> I(2), tranche_name |-> S("Tranche 1 of Deal 2"),
       amount |-> I(250), interest_rate |-> I(3), maturity_date |-> S("2029-01-01"),
       seniority |-> S("senior")]>>

CashFlows ==
    <<[id |-> I(1), tranche_id |-> I(1), payment_date |-> S("2025-01-01"),
       principal |-> I(100), interest |-> I(5), fees |-> I(1)],
      [id |-> I(2), tranche_id |-> I(0), payment_date |-> S("2025-02-01"),
       principal |-> I(50), interest |-> I(2), fees |-> I(1)]>>

Table(model_id) ==
    CASE model_id = "deal" -> Deals
      [] model_id = "tranche" -> Tranches
      [] model_id = "cashflow" -> CashFlows

\* Attributes every declarative class inherits from Base.
BaseAttrs == {"metadata", "registry"}
PrivateAttrs == {"__table__", "__tablename__", "__mapper__", "__init__"}

\* hasattr(cls, name) and hasattr(record, name)
HasAttr(model_id, name) ==
    name \in Range(Columns(model_id)) \cup Relationships(model_id)
             \cup BaseAttrs \cup PrivateAttrs

IsColumn(model_id, name) == name \in Range(Columns(model_id))

\* dir(cls) without the names that start with an underscore: dir() returns
\* the names sorted, so this is alphabetical order, not declaration order.
PublicDir(model_id) ==
    CASE model_id = "deal" ->
           <<"currency", "deal_date", "deal_name", "id", "issuer", "metadata", "registry",
             "status", "total_amount", "tranches">>
      [] model_id = "tranche" ->
           <<"amount", "cashflows", "deal", "deal_id", "id", "interest_rate",
             "maturity_date", "metadata", "registry", "seniority", "tranche_name">>
      [] model_id = "cashflow" ->
           <<"fees", "id", "interest", "metadata", "payment_date", "principal", "registry",
             "tranche", "tranche_id">>

\* A base record carries the model it was loaded from and its column values.
Record(model_id, k) == [model |-> model_id, row |-> Table(model_id)[k]]

\* getattr(record, name) for a name the record has: a column value, or an
\* object that is no scalar (a relationship collection, the MetaData).
Obj(name) == [t |-> "obj", i |-> 0, s |-> name]
GetAttr(rec, name) ==
    IF IsColumn(rec.model, name) THEN rec.row[name] ELSE Obj(name)

\* [attr for attr in dir(x) if not attr.startswith('_') and
\*  (name.lower() in attr.lower() or attr.lower().endswith(name.lower()))]
RECURSIVE SimilarIn(_, _)
SimilarIn(names, name) ==
    IF names = <<>> THEN <<>>
    ELSE IF Contains(Lower(name), Lower(Head(names)))
            \/ EndsWith(Lower(Head(names)), Lower(name))
         THEN <<Head(names)>> \o SimilarIn(Tail(names), name)
         ELSE SimilarIn(Tail(names), name)

similar_fields(model_id, name) == SimilarIn(PublicDir(model_id), name)

\* ------------------------------------------------------ calculation params
\* calculation_params: None (isnull), or a dict; a key the dict lacks holds
\* Missing.
EmptyParams ==
    [isnull |-> FALSE, related_model |-> Missing, field_to_sum |-> Missing,
     field_to_average |-> Missing, field_to_min |-> Missing, field_to_max |-> Missing,
     formula |-> Missing, mapping_type |-> Missing, mapping_value |-> Missing,
     source_model |-> Missing, source_field |-> Missing, relation_field |-> Missing]

NullParams == [EmptyParams EXCEPT !.isnull = TRUE]

\* params.get(key, default), given params[key]
Get(value, default) == IF value = Missing THEN default ELSE value

\* ------------------------------------------------------------------- stores
\* udfs:        udf id -> UDFModel row (columns and the udf_json blob)
\* layouts:     report id -> ReportLayout row
\* report_udfs: the association table, its rows in insertion order
UDFModel(req) ==
    [name |-> req.name, base_model |-> req.base_model,
     aggregation_level |-> req.aggregation_level,
     udf_json |-> [name |-> req.name, base_model |-> req.base_model,
                   aggregation_level |-> req.aggregation_level,
                   fields |-> req.fields]]

ReportLayoutModel(req) ==
    [name |-> req.name, primary_model |-> req.primary_model,
     aggregation_level |-> req.aggregation_level, layout_json |-> req.layout_json]

\* SQLite hands a new row max(id) + 1 (INTEGER PRIMARY KEY without
\* AUTOINCREMENT), so the id of a deleted last row is handed out again.
NextId(table) == SetMax(DOMAIN table) + 1

\* layout.udfs: the UDF ids attached to a layout, in association-row order
RECURSIVE LayoutUdfs(_, _)
LayoutUdfs(rows, report_id) ==
    IF rows = <<>> THEN <<>>
    ELSE IF Head(rows).report_id = report_id
         THEN <<Head(rows).udf_id>> \o LayoutUdfs(Tail(rows), report_id)
         ELSE LayoutUdfs(Tail(rows), report_id)

\* udf.report_layouts (the backref): the layouts a UDF is attached to
ReportLayoutsOf(rows, udf_id) ==
    {rows[k].report_id : k \in {j \in 1..Len(rows) : rows[j].udf_id = udf_id}}

RECURSIVE AssocRows(_, _)
AssocRows(report_id, udf_ids) ==
    IF udf_ids = <<>> THEN <<>>
    ELSE <<[report_id |-> report_id, udf_id |-> Head(udf_ids)]>>
         \o AssocRows(report_id, Tail(udf_ids))

RECURSIVE Without(_, _)
Without(ids, drop) ==
    IF ids = <<>> THEN <<>>
    ELSE IF Head(ids) \in drop THEN Without(Tail(ids), drop)
         ELSE <<Head(ids)>> \o Without(Tail(ids), drop)

\* Variant of SyncUdfs that inserts the rows of newly attached UDFs and
\* deletes none.
SyncUdfs_insert_only(rows, report_id, udf_ids) ==
    rows \o AssocRows(report_id, Without(udf_ids, Range(LayoutUdfs(rows, report_id))))

\* The unit of work's flush of a replaced layout.udfs collection: rows of
\* UDFs no longer in the collection are deleted, rows of UDFs that stay are
\* left in place, rows of newly attached UDFs are inserted in list order.
SyncUdfs(rows, report_id, udf_ids) ==
    LET old  == Range(LayoutUdfs(rows, report_id))
        kept == {r \in Range(rows) : r.report_id # report_id \/ r.udf_id \in Range(udf_ids)}
    IN SelectRows(rows, kept) \o AssocRows(report_id, Without(udf_ids, old))

\* last: what the last call was and what it answered.  rows, evals and
\* queried (whether base_query.all() was executed) are filled by run_report
\* alone, result by a registry lookup alone.
Resp(op, id, req, status) ==
    [op |-> op, id |-> id, req |-> req, status |-> status, rows |-> <<>>, evals |-> {},
     result |-> NoneStr, queried |-> FALSE]

\* The request of an operation that has no body.
NoReq == [none |-> TRUE]

\* ------------------------------------------------------------ session scope
\* Every handler takes its session from get_db, a generator dependency: the
\* framework runs it up to its yield before the handler and resumes it (or
\* throws the handler's exception into it) when the handler has exited.
\* sessions follows the requests one after another: phase is "yielded"
\* between the two halves of get_db, n numbers the requests, closes[k]
\* counts the db.close() calls on the session of request k and exit[k] is
\* the way its handler was left.  Where a handler is taken as one step its
\* whole scope lies inside the step and sessions stays as it is.
MaxRequests == 4

NoSessions ==
    [phase |-> "idle", n |-> 0, closes |-> [k \in 1..MaxRequests |-> 0],
     exit |-> [k \in 1..MaxRequests |-> NoneStr]]

\* How a handler that answered with this status was left: a return, a raised
\* HTTPException (400, 404), or an exception nothing caught (500).
ExitPath(status) ==
    IF status = 200 THEN "return"
    ELSE IF status \in {400, 404} THEN "HTTPException"
    ELSE "Exception"

\* db = SessionLocal(); try: yield db
get_db_enter ==
    /\ sessions.phase # "yielded"
    /\ sessions.n < MaxRequests
    /\ sessions' = [sessions EXCEPT !.phase = "yielded", !.n = @ + 1]
    /\ last' = Resp("get_db", sessions.n + 1, NoReq, 0)
    /\ UNCHANGED <<udfs, layouts, report_udfs, CALCULATIONS, txns>>

\* Variant of get_db_exit for a get_db without try/finally: db.close() is
\* the statement after the yield and runs only when the handler returned.
get_db_exit_after_yield ==
    /\ sessions.phase = "yielded"
    /\ last.op # "get_db"
    /\ sessions' = [sessions EXCEPT !.phase = "done",
                       !.closes[sessions.n] = IF ExitPath(last.status) = "return" THEN @ + 1 ELSE @,
                       !.exit[sessions.n] = ExitPath(last.status)]
    /\ UNCHANGED <<udfs, layouts, report_udfs, CALCULATIONS, last, txns>>

\* finally: db.close() -- on whichever way the handler was left.
get_db_exit ==
    /\ sessions.phase = "yielded"
    /\ last.op # "get_db"
    /\ sessions' = [sessions EXCEPT !.phase = "done",
                       !.closes[sessions.n] = @ + 1,
                       !.exit[sessions.n] = ExitPath(last.status)]
    /\ UNCHANGED <<udfs, layouts, report_udfs, CALCULATIONS, last, txns>>

\* ---------------------------------------------------- requests in flight
\* Handlers are plain functions, which the framework runs on worker threads,
\* each with a session of its own from get_db.  A session reads the
\* committed rows (the engine opens no transaction before the first write)
\* and writes nothing before db.commit(), whose flush and COMMIT hold the
\* database's write lock.  Where two requests are taken as running at the
\* same time a handler is two steps: everything up to db.commit(), which
\* only reads, and db.commit() with what follows it.  txns holds the
\* handlers that are between the two: del a delete_udf, lay a
\* create_report_layout or update_report_layout.  Where a handler is taken
\* as one step txns stays as it is.
NoTxn == [op |-> NoneStr]

NoTxns == [del |-> NoTxn, lay |-> NoTxn]

\* ------------------------------------------------------------ UDF handlers
\* The validation of create_udf and update_udf: 0 when the request passes,
\* else the status of the HTTPException raised.
\* Variant of UdfFieldError that accepts every source_field.
UdfFieldError_skipped(req) == FALSE

UdfFieldError(req) ==
    LET model_field_names == Range(get_model_fields(req.base_model))
    IN \E k \in 1..Len(req.fields) :
          /\ StrTruthy(req.fields[k].source_field)
          /\ req.fields[k].source_field \notin model_field_names

ValidateUdf(req) ==
    IF get_model_class(req.base_model) = NoneStr THEN 400
    ELSE IF ~StrTruthy(req.aggregation_level) THEN 400
    ELSE IF UdfFieldError(req) THEN 400
    ELSE 0

create_udf(req) ==
    LET err == ValidateUdf(req)
        id  == NextId(udfs)
    IN /\ err # 0 \/ id <= MaxUdfId
       /\ IF err # 0
          THEN /\ last' = Resp("create_udf", 0, req, err)
               /\ UNCHANGED udfs
          ELSE /\ udfs' = [u \in DOMAIN udfs \cup {id} |->
                             IF u = id THEN UDFModel(req) ELSE udfs[u]]
               /\ last' = Resp("create_udf", id, req, 200)
       /\ UNCHANGED <<layouts, report_udfs, CALCULATIONS, sessions, txns>>

\* Variant of update_udf that assigns the columns and leaves udf_json as it
\* was.
update_udf_columns_only(udf_id, req) ==
    LET err == IF udf_id \notin DOMAIN udfs THEN 404 ELSE ValidateUdf(req)
    IN /\ IF err # 0
          THEN /\ last' = Resp("update_udf", udf_id, req, err)
               /\ UNCHANGED udfs
          ELSE /\ udfs' = [udfs EXCEPT ![udf_id] =
                             [UDFModel(req) EXCEPT !.udf_json = udfs[udf_id].udf_json]]
               /\ last' = Resp("update_udf", udf_id, req, 200)
       /\ UNCHANGED <<layouts, report_udfs, CALCULATIONS, sessions, txns>>

update_udf(udf_id, req) ==
    LET err == IF udf_id \notin DOMAIN udfs THEN 404 ELSE ValidateUdf(req)
    IN /\ IF err # 0
          THEN /\ last' = Resp("update_udf", udf_id, req, err)
               /\ UNCHANGED udfs
          ELSE /\ udfs' = [udfs EXCEPT ![udf_id] = UDFModel(req)]
               /\ last' = Resp("update_udf", udf_id, req, 200)
       /\ UNCHANGED <<layouts, report_udfs, CALCULATIONS, sessions, txns>>

\* Variant of DeleteUdfError without the report_layouts test.
DeleteUdfError_unchecked(udf_id) ==
    IF udf_id \notin DOMAIN udfs THEN 404 ELSE 0

DeleteUdfError(udf_id) ==
    IF udf_id \notin DOMAIN udfs THEN 404
    ELSE IF Cardinality(ReportLayoutsOf(report_udfs, udf_id)) > 0 THEN 400
    ELSE 0

delete_udf(udf_id) ==
    LET err == DeleteUdfError(udf_id)
    IN /\ IF err # 0
          THEN /\ last' = Resp("delete_udf", udf_id, NoReq, err)
               /\ UNCHANGED udfs
          ELSE /\ udfs' = [u \in DOMAIN udfs \ {udf_id} |-> udfs[u]]
               /\ last' = Resp("delete_udf", udf_id, NoReq, 200)
       /\ UNCHANGED <<layouts, report_udfs, CALCULATIONS, sessions, txns>>

\* ---------------------------------------------------------- layout handlers
\* The loop over udf_ids of create_report_layout and update_report_layout:
\* the first id that names no UDF raises 404, the first whose UDF is at
\* another level raises 400; ids are examined in list order.
RECURSIVE CheckUdfIds(_, _)
CheckUdfIds(udf_ids, level) ==
    IF udf_ids = <<>> THEN 0
    ELSE IF Head(udf_ids) \notin DOMAIN udfs THEN 404
    ELSE IF udfs[Head(udf_ids)].aggregation_level # level THEN 400
    ELSE CheckUdfIds(Tail(udf_ids), level)

\* Variant of ValidateLayout whose loop tests only that each id names a UDF.
ValidateLayout_any_level(req) ==
    IF get_model_class(req.primary_model) = NoneStr THEN 400
    ELSE IF ~StrTruthy(req.aggregation_level) THEN 400
    ELSE IF \E k \in 1..Len(req.udf_ids) : req.udf_ids[k] \notin DOMAIN udfs THEN 404
    ELSE 0

\* Variant of ValidateLayout without the loop over udf_ids.
ValidateLayout_ids_unchecked(req) ==
    IF get_model_class(req.primary_model) = NoneStr THEN 400
    ELSE IF ~StrTruthy(req.aggregation_level) THEN 400
    ELSE 0

ValidateLayout(req) ==
    IF get_model_class(req.primary_model) = NoneStr THEN 400
    ELSE IF ~StrTruthy(req.aggregation_level) THEN 400
    ELSE CheckUdfIds(req.udf_ids, req.aggregation_level)

create_report_layout(req) ==
    LET err == ValidateLayout(req)
        id  == NextId(layouts)
    IN /\ err # 0 \/ id <= MaxLayoutId
       /\ IF err # 0
          THEN /\ last' = Resp("create_report_layout", 0, req, err)
               /\ UNCHANGED <<layouts, report_udfs>>
          ELSE /\ layouts' = [l \in DOMAIN layouts \cup {id} |->
                                IF l = id THEN ReportLayoutModel(req) ELSE layouts[l]]
               /\ report_udfs' = report_udfs \o AssocRows(id, req.udf_ids)
               /\ last' = Resp("create_report_layout", id, req, 200)
       /\ UNCHANGED <<udfs, CALCULATIONS, sessions, txns>>

update_report_layout(report_id, req) ==
    LET err == IF report_id \notin DOMAIN layouts THEN 404 ELSE ValidateLayout(req)
    IN /\ IF err # 0
          THEN /\ last' = Resp("update_report_layout", report_id, req, err)
               /\ UNCHANGED <<layouts, report_udfs>>
          ELSE /\ layouts' = [layouts EXCEPT ![report_id] = ReportLayoutModel(req)]
               /\ report_udfs' = SyncUdfs(report_udfs, report_id, req.udf_ids)
               /\ last' = Resp("update_report_layout", report_id, req, 200)
       /\ UNCHANGED <<udfs, CALCULATIONS, sessions, txns>>

delete_report_layout(report_id) ==
    /\ IF report_id \notin DOMAIN layouts
       THEN /\ last' = Resp("delete_report_layout", report_id, NoReq, 404)
            /\ UNCHANGED <<layouts, report_udfs>>
       ELSE /\ layouts' = [l \in DOMAIN layouts \ {report_id} |-> layouts[l]]
            /\ report_udfs' = SyncUdfs(report_udfs, report_id, <<>>)
            /\ last' = Resp("delete_report_layout", report_id, NoReq, 200)
    /\ UNCHANGED <<udfs, CALCULATIONS, sessions, txns>>

\* ------------------------------------------- handlers of requests in flight
\* delete_udf up to db.delete: the UDF is read and its report_layouts
\* collection loaded (and found empty), or the handler raises.
delete_udf_check(udf_id) ==
    LET err == DeleteUdfError(udf_id)
    IN /\ err # 0 \/ txns.del = NoTxn
       /\ IF err # 0
          THEN /\ last' = Resp("delete_udf", udf_id, NoReq, err)
               /\ UNCHANGED txns
          ELSE /\ txns' = [txns EXCEPT !.del = [op |-> "delete_udf", id |-> udf_id]]
               /\ UNCHANGED last
       /\ UNCHANGED <<udfs, layouts, report_udfs, CALCULATIONS, sessions>>

\* db.delete(db_udf); db.commit(): the row is deleted by its primary key.
\* The report_layouts collection was loaded empty, so the flush deletes no
\* association row.
delete_udf_commit ==
    /\ txns.del # NoTxn
    /\ udfs' = [u \in DOMAIN udfs \ {txns.del.id} |-> udfs[u]]
    /\ last' = Resp("delete_udf", txns.del.id, NoReq, 200)
    /\ txns' = [txns EXCEPT !.del = NoTxn]
    /\ UNCHANGED <<layouts, report_udfs, CALCULATIONS, sessions>>

\* layout.udfs as a session loads it: the UDFs that the association rows of
\* the layout join to, each once.
LoadedUdfs(report_id) ==
    {u \in Range(LayoutUdfs(report_udfs, report_id)) : u \in DOMAIN udfs}

\* The flush of layout.udfs by a session that had loaded the collection as
\* loaded: the rows of loaded UDFs that left the collection are deleted, the
\* rows of UDFs that were not loaded are inserted in list order.  The
\* association table has no enforced foreign key (the engine is created
\* without PRAGMA foreign_keys), so a row is inserted whether or not the
\* UDF row is still there.
FlushUdfs(rows, report_id, loaded, udf_ids) ==
    LET kept == {r \in Range(rows) : \/ r.report_id # report_id
                                     \/ r.udf_id \notin loaded
                                     \/ r.udf_id \in Range(udf_ids)}
    IN SelectRows(rows, kept) \o AssocRows(report_id, Without(udf_ids, loaded))

\* create_report_layout up to db.add: the model, the level and every UDF id
\* are checked against the committed rows.
create_report_layout_check(req) ==
    LET err == ValidateLayout(req)
    IN /\ err # 0 \/ (txns.lay = NoTxn /\ NextId(layouts) <= MaxLayoutId)
       /\ IF err # 0
          THEN /\ last' = Resp("create_report_layout", 0, req, err)
               /\ UNCHANGED txns
          ELSE /\ txns' = [txns EXCEPT !.lay = [op |-> "create_report_layout", id |-> 0,
                                                req |-> req, loaded |-> {}]]
               /\ UNCHANGED last
       /\ UNCHANGED <<udfs, layouts, report_udfs, CALCULATIONS, sessions>>

\* db.add(db_layout); db.commit(): the layout row and one association row
\* per UDF that the check loop had loaded.
create_report_layout_commit ==
    LET id == NextId(layouts)
    IN /\ txns.lay # NoTxn
       /\ txns.lay.op = "create_report_layout"
       /\ layouts' = [l \in DOMAIN layouts \cup {id} |->
                        IF l = id THEN ReportLayoutModel(txns.lay.req) ELSE layouts[l]]
       /\ report_udfs' = report_udfs \o AssocRows(id, txns.lay.req.udf_ids)
       /\ last' = Resp("create_report_layout", id, txns.lay.req, 200)
       /\ txns' = [txns EXCEPT !.lay = NoTxn]
       /\ UNCHANGED <<udfs, CALCULATIONS, sessions>>

\* update_report_layout up to db.commit: the checks of create_report_layout
\* after the layout was found, then db_layout.udfs = [], which loads the
\* collection it replaces.
update_report_layout_check(report_id, req) ==
    LET err == IF report_id \notin DOMAIN layouts THEN 404 ELSE ValidateLayout(req)
    IN /\ err # 0 \/ txns.lay = NoTxn
       /\ IF err # 0
          THEN /\ last' = Resp("update_report_layout", report_id, req, err)
               /\ UNCHANGED txns
          ELSE /\ txns' = [txns EXCEPT !.lay = [op |-> "update_report_layout", id |-> report_id,
                                                req |-> req, loaded |-> LoadedUdfs(report_id)]]
               /\ UNCHANGED last
       /\ UNCHANGED <<udfs, layouts, report_udfs, CALCULATIONS, sessions>>

\* db.commit() of update_report_layout: the layout's columns and the change
\* of its udfs collection.
update_report_layout_commit ==
    /\ txns.lay # NoTxn
    /\ txns.lay.op = "update_report_layout"
    /\ layouts' = [layouts EXCEPT ![txns.lay.id] = ReportLayoutModel(txns.lay.req)]
    /\ report_udfs' = FlushUdfs(report_udfs, txns.lay.id, txns.lay.loaded, txns.lay.req.udf_ids)
    /\ last' = Resp("update_report_layout", txns.lay.id, txns.lay.req, 200)
    /\ txns' = [txns EXCEPT !.lay = NoTxn]
    /\ UNCHANGED <<udfs, CALCULATIONS, sessions>>

\* ------------------------------------------------------ Calculation Registry
\* CALCULATIONS maps (calculation_type, aggregation_level) to the name of the
\* registered implementation; NoneStr as a level is the wildcard key, and an
\* unset key holds NoneStr.
Kinds == {"sum", "average", "count", "min", "max", "custom", "mapping"}
LevelKeys == {"deal", "group", "tranche", NoneStr}
RegistryKeys == Kinds \X LevelKeys

EmptyRegistry == [key \in RegistryKeys |-> NoneStr]

\* the decorator's effect on CALCULATIONS: CALCULATIONS[key] = func
Register(reg, calculation_type, aggregation_level, func) ==
    [reg EXCEPT ![<<calculation_type, aggregation_level>>] = func]

\* Variant of BuiltinRegistry with min registered at the deal level.
BuiltinRegistry_min_at_deal ==
    Register(Register(Register(Register(Register(Register(Register(EmptyRegistry,
        "sum", "deal", "sum_calculation"),
        "average", "deal", "average_calculation"),
        "count", "group", "count_calculation"),
        "min", "deal", "min_calculation"),
        "max", "tranche", "max_calculation"),
        "custom", NoneStr, "custom_calculation"),
        "mapping", NoneStr, "mapping_calculation")

\* CALCULATIONS after the module's seven decorators have run
BuiltinRegistry ==
    Register(Register(Register(Register(Register(Register(Register(EmptyRegistry,
        "sum", "deal", "sum_calculation"),
        "average", "deal", "average_calculation"),
        "count", "group", "count_calculation"),
        "min", "tranche", "min_calculation"),
        "max", "tranche", "max_calculation"),
        "custom", NoneStr, "custom_calculation"),
        "mapping", NoneStr, "mapping_calculation")

\* CALCULATIONS.get(key)
RegGet(reg, key) == IF key \in DOMAIN reg THEN reg[key] ELSE NoneStr

\* Variant of get_calculation_function that tries the wildcard key first.
get_calculation_function_wildcard_first(calculation_type, aggregation_level) ==
    LET func == RegGet(CALCULATIONS, <<calculation_type, NoneStr>>)
    IN IF func # NoneStr THEN func
       ELSE RegGet(CALCULATIONS, <<calculation_type, aggregation_level>>)

get_calculation_function(calculation_type, aggregation_level) ==
    LET func == RegGet(CALCULATIONS, <<calculation_type, aggregation_level>>)
    IN IF func # NoneStr THEN func
       ELSE RegGet(CALCULATIONS, <<calculation_type, NoneStr>>)

\* ------------------------------------------------- calculation implementations
\* Every implementation yields a scalar, or Raised(..) when an exception
\* leaves the function.
SetMin(ks) == CHOOSE y \in ks : \A z \in ks : y <= z

\* The relationship inference of sum, average and count.  possible_fields
\* is the candidate list; first_possible_field walks it over the attribute
\* names a class exposes and yields the first that exists, NoneStr when the
\* loop runs into its else branch (the implementation then returns 0).
possible_fields(base_model) ==
    <<base_model \o "_id", Lower(base_model) \o "_id",
      "id_" \o base_model, "id_" \o Lower(base_model)>>

\* Variant of first_possible_field that walks the candidates from the last
\* to the first.
first_possible_field_reversed(attrs, base_model) ==
    LET hits == {k \in 1..4 : possible_fields(base_model)[k] \in attrs}
    IN IF hits = {} THEN NoneStr
       ELSE possible_fields(base_model)[CHOOSE y \in hits : \A z \in hits : y >= z]

first_possible_field(attrs, base_model) ==
    LET hits == {k \in 1..4 : possible_fields(base_model)[k] \in attrs}
    IN IF (base_model \o "_id") \in attrs THEN base_model \o "_id"
       ELSE IF hits = {} THEN NoneStr
       ELSE possible_fields(base_model)[SetMin(hits)]

\* The attribute of the related class compared with the base record's id.
relationship_field(related_class, base_model) ==
    first_possible_field({name \in Range(possible_fields(base_model)) :
                             HasAttr(related_class, name)}, base_model)

\* The exact-or-similar resolution of the field to aggregate on the related
\* class: the name to use, NoneStr when nothing matches.
resolve_field(model_id, name) ==
    IF HasAttr(model_id, name) THEN name
    ELSE LET sim == similar_fields(model_id, name)
         IN IF sim # <<>> THEN sim[1] ELSE NoneStr

\* The rows of the related table the aggregate query selects (by position):
\* filter_attr == base_id, and cycle_code when the class has that attribute.
RelatedRows(related_class, rel_field, base_id, cycle_code) ==
    {k \in 1..Len(Table(related_class)) :
        /\ Table(related_class)[k][rel_field] = base_id
        /\ (HasAttr(related_class, "cycle_code") /\ StrTruthy(cycle_code))
              => Table(related_class)[k]["cycle_code"] = S(cycle_code)}

SqlNum(v) == IF v.t = "int" THEN v.i ELSE 0

\* SUM(col) over the selected rows among the first k rows of the table
RECURSIVE SumOver(_, _, _, _)
SumOver(related_class, keep, col, k) ==
    IF k = 0 THEN 0
    ELSE (IF k \in keep THEN SqlNum(Table(related_class)[k][col]) ELSE 0)
         + SumOver(related_class, keep, col, k - 1)

\* Variant of Aggregate without the test of the base record's id.
Aggregate_id_unchecked(agg, default_model, field_name, base_record, base_model, params, cycle_code) ==
    IF params.isnull THEN Raised("AttributeError")
    ELSE
    LET related_class == get_model_class(Get(params.related_model, default_model))
    IN IF related_class = NoneStr THEN I(0)
       ELSE
       LET rel == relationship_field(related_class, base_model)
           col == IF agg = "count" THEN "id" ELSE resolve_field(related_class, field_name)
       IN IF rel = NoneStr \/ col = NoneStr THEN I(0)
          ELSE IF ~IsColumn(related_class, rel) \/ ~IsColumn(related_class, col) THEN I(0)
          ELSE LET keep == RelatedRows(related_class, rel, base_record.row["id"], cycle_code)
                   n == Cardinality(keep)
                   total == SumOver(related_class, keep, col, Len(Table(related_class)))
               IN CASE agg = "sum" -> I(total)
                    [] agg = "average" -> IF n = 0 THEN I(0) ELSE I(total \div n)
                    [] agg = "count" -> I(n)

\* The body shared by sum_calculation, average_calculation and
\* count_calculation; agg names the SQL aggregate, field_key the parameter
\* that names the aggregated field ("" for count, which has none).
Aggregate(agg, default_model, field_name, base_record, base_model, params, cycle_code) ==
    IF params.isnull THEN Raised("AttributeError")
    ELSE
    LET related_model == Get(params.related_model, default_model)
        related_class == get_model_class(related_model)
    IN IF related_class = NoneStr THEN I(0)
       ELSE
       LET rel == relationship_field(related_class, base_model)
           base_id == base_record.row["id"]
           col == IF agg = "count" THEN "id" ELSE resolve_field(related_class, field_name)
       IN IF rel = NoneStr THEN I(0)
          ELSE IF ~Truthy(base_id) THEN I(0)
          ELSE IF col = NoneStr THEN I(0)
          ELSE IF ~IsColumn(related_class, rel) \/ ~IsColumn(related_class, col) THEN I(0)
          ELSE LET keep == RelatedRows(related_class, rel, base_id, cycle_code)
                   n == Cardinality(keep)
                   total == SumOver(related_class, keep, col, Len(Table(related_class)))
               IN CASE agg = "sum" -> I(total)
                    [] agg = "average" -> IF n = 0 THEN I(0) ELSE I(total \div n)
                    [] agg = "count" -> I(n)

\* Variant of sum_calculation whose query lacks filter(filter_attr == base_id).
sum_calculation_unfiltered(base_record, base_model, source_field, params, cycle_code) ==
    IF params.isnull THEN Raised("AttributeError")
    ELSE LET related_class == get_model_class(Get(params.related_model, "tranche"))
         IN IF related_class = NoneStr THEN I(0)
            ELSE LET col == resolve_field(related_class, Get(params.field_to_sum, "amount"))
                 IN IF col = NoneStr \/ ~IsColumn(related_class, col) THEN I(0)
                    ELSE I(SumOver(related_class, 1..Len(Table(related_class)), col,
                                   Len(Table(related_class))))

sum_calculation(base_record, base_model, source_field, params, cycle_code) ==
    Aggregate("sum", "tranche",
              IF params.isnull THEN "" ELSE Get(params.field_to_sum, "amount"),
              base_record, base_model, params, cycle_code)

average_calculation(base_record, base_model, source_field, params, cycle_code) ==
    Aggregate("average", "tranche",
              IF params.isnull THEN "" ELSE Get(params.field_to_average, "amount"),
              base_record, base_model, params, cycle_code)

count_calculation(base_record, base_model, source_field, params, cycle_code) ==
    Aggregate("count", "deal", "", base_record, base_model, params, cycle_code)

\* Variant of DirectField that reads source_field whatever params names.
DirectField_source_only(base_record, source_field, params, requested) ==
    IF params.isnull THEN Raised("AttributeError")
    ELSE IF source_field = NoneStr THEN Raised("AttributeError")
    ELSE IF source_field = "" \/ ~HasAttr(base_record.model, source_field)
    THEN LET sim == similar_fields(base_record.model, source_field)
         IN IF sim # <<>> THEN GetAttr(base_record, sim[1]) ELSE I(0)
    ELSE GetAttr(base_record, source_field)

\* The body shared by min_calculation and max_calculation: requested is
\* params.get("field_to_min" / "field_to_max", source_field).
DirectField(base_record, source_field, params, requested) ==
    IF params.isnull THEN Raised("AttributeError")
    ELSE
    LET field == IF StrTruthy(requested) THEN requested ELSE source_field
    IN IF ~StrTruthy(field) \/ ~HasAttr(base_record.model, field)
       THEN IF field = NoneStr THEN Raised("AttributeError")
            ELSE LET sim == similar_fields(base_record.model, field)
                 IN IF sim # <<>> THEN GetAttr(base_record, sim[1]) ELSE I(0)
       ELSE GetAttr(base_record, field)

min_calculation(base_record, base_model, source_field, params, cycle_code) ==
    DirectField(base_record, source_field, params,
                IF params.isnull THEN NoneStr ELSE Get(params.field_to_min, source_field))

max_calculation(base_record, base_model, source_field, params, cycle_code) ==
    DirectField(base_record, source_field, params,
                IF params.isnull THEN NoneStr ELSE Get(params.field_to_max, source_field))

\* The SQL formulas the model knows: the bind parameters (:name) a formula's
\* text defines, and the value SELECT (formula) yields for a record once
\* every bind is supplied; a formula naming bare columns has no FROM clause
\* to resolve them and fails.
FormulaBinds(formula) ==
    CASE formula = ":principal + :interest + :fees + 0 * (:id + :tranche_id + :payment_date)" ->
           {"principal", "interest", "fees", "id", "tranche_id", "payment_date"}
      [] formula = ":principal + :interest" -> {"principal", "interest"}
      [] OTHER -> {}

FormulaValue(formula, base_record) ==
    CASE formula = ":principal + :interest + :fees + 0 * (:id + :tranche_id + :payment_date)" ->
           I(base_record.row["principal"].i + base_record.row["interest"].i
             + base_record.row["fees"].i)
      [] formula = "1 + 1" -> I(2)
      [] OTHER -> Raised("OperationalError")

custom_calculation(base_record, base_model, source_field, params, cycle_code) ==
    IF params.isnull THEN Raised("AttributeError")
    ELSE
    LET formula == Get(params.formula, NoneStr)
        variables == Range(Columns(base_record.model))
    IN IF ~StrTruthy(formula) THEN I(0)
       \* sql.bindparams(name=value) raises for a name the text does not define
       ELSE IF ~(variables \subseteq FormulaBinds(formula)) THEN I(0)
       ELSE LET result == FormulaValue(formula, base_record)
            IN IF result.t = "raise" THEN I(0) ELSE result

\* Variant of mapping_calculation that returns `mapping_value or None` and
\* has no model_field mode.
mapping_calculation_value_or_none(base_record, base_model, source_field, params, cycle_code) ==
    IF params.isnull THEN Raised("AttributeError")
    ELSE IF Get(params.mapping_type, "static") # "static" THEN Null
    ELSE IF StrTruthy(Get(params.mapping_value, "")) THEN S(params.mapping_value)
    ELSE Null

mapping_calculation(base_record, base_model, source_field, params, cycle_code) ==
    IF params.isnull THEN Raised("AttributeError")
    ELSE
    LET mapping_type == Get(params.mapping_type, "static")
    IN IF mapping_type = "static" THEN S(Get(params.mapping_value, ""))
       ELSE IF mapping_type = "model_field"
       THEN LET source_model == Get(params.source_model, NoneStr)
                src_field == Get(params.source_field, NoneStr)
                relation_field == Get(params.relation_field, NoneStr)
            IN IF ~StrTruthy(source_model) \/ ~StrTruthy(src_field)
                  \/ ~StrTruthy(relation_field) THEN Null
               ELSE LET source_class == get_model_class(source_model)
                        base_id == base_record.row["id"]
                    IN IF source_class = NoneStr THEN Null
                       ELSE IF ~HasAttr(source_class, relation_field) THEN Null
                       ELSE IF ~Truthy(base_id) THEN Null
                       ELSE IF ~HasAttr(source_class, src_field) THEN Null
                       ELSE IF ~IsColumn(source_class, relation_field) THEN Null
                       ELSE LET keep == RelatedRows(source_class, relation_field, base_id,
                                                    cycle_code)
                            IN IF keep = {} THEN Null
                               ELSE GetAttr([model |-> source_class,
                                             row |-> Table(source_class)[SetMin(keep)]],
                                            src_field)
       ELSE Null

\* calc_func(db, base_record, base_model, source_field, params, cycle_code)
Call(calc_func, base_record, base_model, source_field, params, cycle_code) ==
    CASE calc_func = "sum_calculation" ->
           sum_calculation(base_record, base_model, source_field, params, cycle_code)
      [] calc_func = "average_calculation" ->
           average_calculation(base_record, base_model, source_field, params, cycle_code)
      [] calc_func = "count_calculation" ->
           count_calculation(base_record, base_model, source_field, params, cycle_code)
      [] calc_func = "min_calculation" ->
           min_calculation(base_record, base_model, source_field, params, cycle_code)
      [] calc_func = "max_calculation" ->
           max_calculation(base_record, base_model, source_field, params, cycle_code)
      [] calc_func = "custom_calculation" ->
           custom_calculation(base_record, base_model, source_field, params, cycle_code)
      [] calc_func = "mapping_calculation" ->
           mapping_calculation(base_record, base_model, source_field, params, cycle_code)

\* ------------------------------------------------------ Report Execution Engine
\* The legacy branch of calculate_udf, taken when the registry holds no
\* implementation.  rnd stands for the draw of random.uniform / randint; a
\* value built from it is marked "random".
Random(kind, rnd) == [t |-> "random", i |-> rnd, s |-> kind]

LegacyScaled(base_record, source_field, kind, rnd) ==
    LET base_value == IF HasAttr(base_record.model, source_field)
                      THEN GetAttr(base_record, source_field) ELSE I(0)
    IN IF base_value.t = "int" THEN Random(kind, rnd) ELSE Raised("TypeError")

LegacyCustom(base_record, params, rnd) ==
    IF params.isnull THEN Raised("AttributeError")
    ELSE LET formula == Get(params.formula, NoneStr)
             result == FormulaValue(formula, base_record)
         IN IF StrTruthy(formula) /\ FormulaBinds(formula) = {} /\ result.t # "raise"
            THEN result
            ELSE Random("custom", rnd)

LegacyFallback(base_record, base_model, source_field, calculation_type, params, aggregation_level, rnd) ==
    IF /\ aggregation_level = "deal" /\ calculation_type = "sum"
       /\ base_model = "deal" /\ source_field = "total_amount"
    THEN IF IsColumn(base_record.model, "total_amount") THEN Random("sum", rnd)
         ELSE Raised("AttributeError")
    ELSE IF /\ aggregation_level = "deal" /\ calculation_type = "average"
            /\ StrTruthy(source_field)
    THEN LegacyScaled(base_record, source_field, "average", rnd)
    ELSE IF aggregation_level = "group" /\ calculation_type = "count"
    THEN Random("count", rnd)
    ELSE IF /\ aggregation_level = "tranche" /\ calculation_type \in {"min", "max"}
            /\ StrTruthy(source_field)
    THEN LegacyScaled(base_record, source_field, calculation_type, rnd)
    ELSE IF calculation_type = "custom" THEN LegacyCustom(base_record, params, rnd)
    ELSE I(0)

\* Variant of calculate_udf without the try/except around the registered
\* implementation.
calculate_udf_uncaught(base_record, base_model, source_field, calculation_type, params, cycle_code, aggregation_level, rnd) ==
    LET calc_func == get_calculation_function(calculation_type, aggregation_level)
    IN IF calc_func # NoneStr
       THEN Call(calc_func, base_record, base_model, source_field, params, cycle_code)
       ELSE LegacyFallback(base_record, base_model, source_field, calculation_type, params,
                           aggregation_level, rnd)

\* Variant of calculate_udf that takes the legacy branch whenever it has a
\* result for the kind and level, and only then consults the registry.
calculate_udf_legacy_first(base_record, base_model, source_field, calculation_type, params, cycle_code, aggregation_level, rnd) ==
    LET legacy == LegacyFallback(base_record, base_model, source_field, calculation_type,
                                 params, aggregation_level, rnd)
        calc_func == get_calculation_function(calculation_type, aggregation_level)
    IN IF legacy.t = "random" THEN legacy
       ELSE IF calc_func # NoneStr
       THEN LET result == Call(calc_func, base_record, base_model, source_field, params,
                               cycle_code)
            IN IF result.t = "raise" THEN I(0) ELSE result
       ELSE legacy

\* calculate_udf: the registered implementation under try/except, else the
\* legacy branch.
calculate_udf(base_record, base_model, source_field, calculation_type, params, cycle_code, aggregation_level, rnd) ==
    LET calc_func == get_calculation_function(calculation_type, aggregation_level)
    IN IF calc_func # NoneStr
       THEN LET result == Call(calc_func, base_record, base_model, source_field, params,
                               cycle_code)
            IN IF result.t = "raise" THEN I(0) ELSE result
       ELSE LegacyFallback(base_record, base_model, source_field, calculation_type, params,
                           aggregation_level, rnd)

\* layout_json.get("fields", [])
LayoutFields(layout_json) == IF layout_json.has_fields THEN layout_json.fields ELSE {}

\* f"{udf.name}.{field_name}"
full_field_name(udf_name, field_name) == udf_name \o "." \o field_name

\* field_name in layout_fields or full_field_name in layout_fields
Requested(udf_name, field_name, layout_json) ==
    \/ field_name \in LayoutFields(layout_json)
    \/ full_field_name(udf_name, field_name) \in LayoutFields(layout_json)

\* The (udf, field) pairs of a layout in the order the two nested loops of
\* run_report visit them.
RECURSIVE FieldsOf(_, _, _)
FieldsOf(udf_id, fields, k) ==
    IF k > Len(fields) THEN <<>>
    ELSE <<[udf_id |-> udf_id, k |-> k]>> \o FieldsOf(udf_id, fields, k + 1)

RECURSIVE Visits(_)
Visits(udf_ids) ==
    IF udf_ids = <<>> THEN <<>>
    ELSE FieldsOf(Head(udf_ids), udfs[Head(udf_ids)].udf_json.fields, 1)
         \o Visits(Tail(udf_ids))

VisitField(v) == udfs[v.udf_id].udf_json.fields[v.k]
VisitKey(v) == full_field_name(udfs[v.udf_id].name, VisitField(v).name)
VisitRequested(v, layout_json) ==
    Requested(udfs[v.udf_id].name, VisitField(v).name, layout_json)

\* udf_value of one visit for one base record
VisitValue(v, base_record, cycle_code, rnd) ==
    calculate_udf(base_record, udfs[v.udf_id].base_model, VisitField(v).source_field,
                  VisitField(v).calculation_type, VisitField(v).calculation_params,
                  cycle_code, udfs[v.udf_id].aggregation_level, rnd)

\* The visits of a layout that pass the "requested" test, by position.
RequestedVisits(report_id) ==
    {i \in 1..Len(Visits(LayoutUdfs(report_udfs, report_id))) :
        VisitRequested(Visits(LayoutUdfs(report_udfs, report_id))[i],
                       layouts[report_id].layout_json)}

\* Variant of RecordData that seeds the row with the columns layout_json.fields
\* names instead of every column.
RecordData_requested_only(report_id, base_record, cycle_code, rnd) ==
    LET visits == Visits(LayoutUdfs(report_udfs, report_id))
        wanted == RequestedVisits(report_id)
        columns == Range(Columns(base_record.model))
                     \cap LayoutFields(layouts[report_id].layout_json)
    IN [key \in columns \cup {VisitKey(visits[i]) : i \in wanted} |->
          LET writers == {i \in wanted : VisitKey(visits[i]) = key}
          IN IF writers = {} THEN base_record.row[key]
             ELSE VisitValue(visits[SetMax(writers)], base_record, cycle_code, rnd)]

\* record_data after the loops over the UDFs and their fields: every column
\* of the primary model, then record_data[key] = udf_value for each requested
\* visit in loop order, so the last visit that writes a key decides it.
RecordData(report_id, base_record, cycle_code, rnd) ==
    LET visits == Visits(LayoutUdfs(report_udfs, report_id))
        wanted == RequestedVisits(report_id)
        columns == Range(Columns(base_record.model))
    IN [key \in columns \cup {VisitKey(visits[i]) : i \in wanted} |->
          LET writers == {i \in wanted : VisitKey(visits[i]) = key}
          IN IF writers = {} THEN base_record.row[key]
             ELSE VisitValue(visits[SetMax(writers)], base_record, cycle_code, rnd)]

\* Whether an exception leaves calculate_udf while this record is processed.
RecordFails(report_id, base_record, cycle_code, rnd) ==
    \E i \in RequestedVisits(report_id) :
        VisitValue(Visits(LayoutUdfs(report_udfs, report_id))[i], base_record,
                   cycle_code, rnd).t = "raise"

\* The calculate_udf calls of one record: which visit, under which key, with
\* which result.
RecordEvals(report_id, rec_no, base_record, cycle_code, rnd) ==
    {[rec |-> rec_no, udf_id |-> Visits(LayoutUdfs(report_udfs, report_id))[i].udf_id,
      k |-> Visits(LayoutUdfs(report_udfs, report_id))[i].k,
      key |-> VisitKey(Visits(LayoutUdfs(report_udfs, report_id))[i]),
      value |-> VisitValue(Visits(LayoutUdfs(report_udfs, report_id))[i], base_record,
                           cycle_code, rnd)] : i \in RequestedVisits(report_id)}

\* The request filters: a (field, value) pair whose field the class has
\* narrows the query.  Comparing a relationship attribute with a plain value
\* raises when the criterion is built; any other non-column attribute
\* compares unequal to every value, so the criterion is false.
FilterRaises(model_id, filters) ==
    \E k \in 1..Len(filters) : filters[k].field \in Relationships(model_id)

Selected(model_id, filters, row) ==
    \A k \in 1..Len(filters) :
        HasAttr(model_id, filters[k].field) =>
            /\ IsColumn(model_id, filters[k].field)
            /\ row[filters[k].field] = filters[k].value

RECURSIVE BaseResults(_, _, _)
BaseResults(model_id, filters, k) ==
    IF k > Len(Table(model_id)) THEN <<>>
    ELSE IF Selected(model_id, filters, Table(model_id)[k])
         THEN <<k>> \o BaseResults(model_id, filters, k + 1)
         ELSE BaseResults(model_id, filters, k + 1)

RunResponse(req, status, rows, evals) ==
    [op |-> "run_report", id |-> req.report_id, req |-> req, status |-> status,
     rows |-> rows, evals |-> evals, result |-> NoneStr, queried |-> status = 200]

\* The loop over base_results, when no exception leaves it: one row per base
\* record, in query order.
ResultData(report_id, base_results, req, rnd) ==
    [j \in 1..Len(base_results) |->
        RecordData(report_id, Record(layouts[report_id].primary_model, base_results[j]),
                   req.cycle_code, rnd)]

ResultEvals(report_id, base_results, req, rnd) ==
    UNION {RecordEvals(report_id, base_results[j],
                       Record(layouts[report_id].primary_model, base_results[j]),
                       req.cycle_code, rnd) : j \in 1..Len(base_results)}

ResultFails(report_id, base_results, req, rnd) ==
    \E j \in 1..Len(base_results) :
        RecordFails(report_id, Record(layouts[report_id].primary_model, base_results[j]),
                    req.cycle_code, rnd)

\* Variant of run_report that does not test the class it got from the
\* registry: db.query(None) then raises.
run_report_unchecked_model(req, rnd) ==
    /\ IF req.report_id \notin DOMAIN layouts
       THEN last' = RunResponse(req, 404, <<>>, {})
       ELSE IF get_model_class(layouts[req.report_id].primary_model) = NoneStr
       THEN last' = RunResponse(req, 500, <<>>, {})
       ELSE last' = RunResponse(req, 200, <<>>, {})
    /\ UNCHANGED <<udfs, layouts, report_udfs, CALCULATIONS, sessions, txns>>

\* Variant of run_report that fills the unset wildcard keys of the registry
\* with a default implementation on its way.
run_report_registering(req, rnd) ==
    /\ IF req.report_id \notin DOMAIN layouts
       THEN last' = RunResponse(req, 404, <<>>, {})
       ELSE IF get_model_class(layouts[req.report_id].primary_model) = NoneStr
       THEN last' = RunResponse(req, 400, <<>>, {})
       ELSE IF FilterRaises(layouts[req.report_id].primary_model, req.filters)
       THEN last' = RunResponse(req, 500, <<>>, {})
       ELSE LET base_results == BaseResults(layouts[req.report_id].primary_model,
                                            req.filters, 1)
            IN IF ResultFails(req.report_id, base_results, req, rnd)
               THEN last' = [RunResponse(req, 500, <<>>, {}) EXCEPT !.queried = TRUE]
               ELSE last' = RunResponse(req, 200,
                                ResultData(req.report_id, base_results, req, rnd),
                                ResultEvals(req.report_id, base_results, req, rnd))
    /\ CALCULATIONS' = [key \in RegistryKeys |->
                          IF key[2] = NoneStr /\ CALCULATIONS[key] = NoneStr
                          THEN "custom_calculation" ELSE CALCULATIONS[key]]
    /\ UNCHANGED <<udfs, layouts, report_udfs, sessions, txns>>

run_report(req, rnd) ==
    /\ IF req.report_id \notin DOMAIN layouts
       THEN last' = RunResponse(req, 404, <<>>, {})
       ELSE IF get_model_class(layouts[req.report_id].primary_model) = NoneStr
       THEN last' = RunResponse(req, 400, <<>>, {})
       ELSE IF FilterRaises(layouts[req.report_id].primary_model, req.filters)
       THEN last' = RunResponse(req, 500, <<>>, {})
       ELSE LET base_results == BaseResults(layouts[req.report_id].primary_model,
                                            req.filters, 1)
            IN IF ResultFails(req.report_id, base_results, req, rnd)
               THEN last' = [RunResponse(req, 500, <<>>, {}) EXCEPT !.queried = TRUE]
               ELSE last' = RunResponse(req, 200,
                                ResultData(req.report_id, base_results, req, rnd),
                                ResultEvals(req.report_id, base_results, req, rnd))
    /\ UNCHANGED <<udfs, layouts, report_udfs, CALCULATIONS, sessions, txns>>

\* -------------------------------------------------------------- request sets
\* A field spec of a UDF request.
Field(name, source_field, calculation_type, calculation_params) ==
    [name |-> name, source_field |-> source_field,
     calculation_type |-> calculation_type, calculation_params |-> calculation_params]

UdfReq(name, base_model, aggregation_level, fields) ==
    [name |-> name, base_model |-> base_model, aggregation_level |-> aggregation_level,
     fields |-> fields]

LayoutReq(primary_model, aggregation_level, udf_ids, layout_json) ==
    [name |-> "R", primary_model |-> primary_model,
     aggregation_level |-> aggregation_level, udf_ids |-> udf_ids,
     layout_json |-> layout_json]

FieldsJson(names) == [has_fields |-> TRUE, fields |-> names]
NoFieldsJson == [has_fields |-> FALSE, fields |-> {}]

\* udf_ids lists without repeats over the ids 1..MaxUdfId, of length <= 2
UdfIdLists ==
    {<<>>} \cup {<<a>> : a \in 1..MaxUdfId}
           \cup {ids \in (1..MaxUdfId) \X (1..MaxUdfId) : ids[1] # ids[2]}

\* The requests of the store specification: UDFs that differ in base model,
\* level and source field, layouts that differ in model, level and udf_ids.
CrudUdfReqs ==
    {UdfReq("A", "deal", "deal", <<Field("c", "total_amount", "sum", NullParams)>>),
     UdfReq("A", "deal", "tranche", <<Field("c", "total_amount", "sum", NullParams)>>),
     UdfReq("A", "tranche", "deal", <<>>),
     UdfReq("A", "tranche", "deal", <<Field("c", "total_amount", "sum", NullParams)>>),
     UdfReq("A", "deal", "deal", <<Field("c", "bogus", "sum", NullParams)>>),
     UdfReq("A", "nomodel", "deal", <<>>),
     UdfReq("A", "deal", "", <<>>)}

CrudLayoutReqs ==
    {LayoutReq("deal", l, ids, FieldsJson({"c"})) :
        l \in {"deal", "tranche"}, ids \in UdfIdLists}
    \cup {LayoutReq("nomodel", "deal", <<>>, FieldsJson({"c"}))}

\* The requests of the run specification.
SumParams == [EmptyParams EXCEPT !.related_model = "tranche", !.field_to_sum = "amount"]
StaticParams(v) == [EmptyParams EXCEPT !.mapping_type = "static", !.mapping_value = v]

RunUdfReqs ==
    {UdfReq("A", "deal", "deal", <<Field("c", "total_amount", "sum", SumParams)>>),
     UdfReq("A", "deal", "deal", <<Field("c", NoneStr, "mapping", NullParams)>>),
     UdfReq("A.b", "deal", "deal", <<Field("c", NoneStr, "mapping", StaticParams("N/A"))>>),
     UdfReq("A", "deal", "deal", <<Field("b.c", NoneStr, "count", EmptyParams)>>),
     UdfReq("A", "deal", "tranche", <<Field("c", "total_amount", "sum", SumParams)>>)}

RunLayoutReqs ==
    {LayoutReq("deal", "deal", ids, js) :
        ids \in UdfIdLists \ {<<>>},
        js \in {NoFieldsJson, FieldsJson({"c"}), FieldsJson({"A.b.c"})}}

RunReqs ==
    {[report_id |-> r, cycle_code |-> "12023", filters |-> f] :
        r \in 1..MaxLayoutId,
        f \in {<<>>,
                <<[field |-> "status", value |-> S("active")],
                  [field |-> "nofield", value |-> S("x")]>>,
                <<[field |-> "tranches", value |-> S("x")]>>,
                <<[field |-> "metadata", value |-> S("x")]>>}}

RandomDraws == {1, 2}

\* ------------------------------------------------------------ specifications
Init ==
    /\ udfs = <<>>
    /\ layouts = <<>>
    /\ report_udfs = <<>>
    /\ CALCULATIONS = BuiltinRegistry
    /\ last = Resp("init", 0, NoReq, 0)
    /\ sessions = NoSessions
    /\ txns = NoTxns

\* The stores under every UDF and layout handler.
Next ==
    \/ \E req \in CrudUdfReqs : create_udf(req)
    \/ \E id \in 1..MaxUdfId, req \in CrudUdfReqs : update_udf(id, req)
    \/ \E id \in 1..MaxUdfId : delete_udf(id)
    \/ \E req \in CrudLayoutReqs : create_report_layout(req)
    \/ \E id \in 1..MaxLayoutId, req \in CrudLayoutReqs : update_report_layout(id, req)
    \/ \E id \in 1..MaxLayoutId : delete_report_layout(id)

Spec == Init /\ [][Next]_vars

\* The stores under the handlers, and reports run against them.
NextRun ==
    \/ \E req \in RunUdfReqs : create_udf(req)
    \/ \E id \in 1..MaxUdfId, req \in RunUdfReqs : update_udf(id, req)
    \/ \E id \in 1..MaxUdfId : delete_udf(id)
    \/ \E req \in RunLayoutReqs : create_report_layout(req)
    \/ \E id \in 1..MaxLayoutId, req \in RunLayoutReqs : update_report_layout(id, req)
    \/ \E id \in 1..MaxLayoutId : delete_report_layout(id)
    \/ \E req \in RunReqs, rnd \in RandomDraws : run_report(req, rnd)

SpecRun == Init /\ [][NextRun]_vars

\* The registry while the calculations module loads: decorators register
\* implementations, and lookups see whatever has been registered so far.
RegKinds == {"sum", "custom"}
RegLevels == {"deal", NoneStr}
RegFuncs == {"sum_calculation", "custom_calculation"}
LookupKinds == {"sum", "custom", "median"}
LookupLevels == {"deal", "tranche", NoneStr}

register_calculation(calculation_type, aggregation_level, func) ==
    /\ CALCULATIONS' = Register(CALCULATIONS, calculation_type, aggregation_level, func)
    /\ last' = Resp("register_calculation", 0,
                    [calculation_type |-> calculation_type,
                     aggregation_level |-> aggregation_level], 0)
    /\ UNCHANGED <<udfs, layouts, report_udfs, sessions, txns>>

lookup(calculation_type, aggregation_level) ==
    /\ last' = [Resp("get_calculation_function", 0,
                     [calculation_type |-> calculation_type,
                      aggregation_level |-> aggregation_level], 0)
                EXCEPT !.result = get_calculation_function(calculation_type,
                                                           aggregation_level)]
    /\ UNCHANGED <<udfs, layouts, report_udfs, CALCULATIONS, sessions, txns>>

InitRegistry ==
    /\ udfs = <<>>
    /\ layouts = <<>>
    /\ report_udfs = <<>>
    /\ CALCULATIONS = EmptyRegistry
    /\ last = Resp("init", 0, NoReq, 0)
    /\ sessions = NoSessions
    /\ txns = NoTxns

NextRegistry ==
    \/ \E k \in RegKinds, l \in RegLevels, f \in RegFuncs : register_calculation(k, l, f)
    \/ \E k \in LookupKinds, l \in LookupLevels : lookup(k, l)

SpecRegistry == InitRegistry /\ [][NextRegistry]_vars

\* The requests taken apart: get_db up to its yield, the handler, the rest
\* of get_db.  The handler of a request runs once its session was yielded.
HandlerTurn == sessions.phase = "yielded" /\ last.op = "get_db"

NextSession ==
    \/ get_db_enter
    \/ \E req \in RunUdfReqs : HandlerTurn /\ create_udf(req)
    \/ \E id \in 1..MaxUdfId, req \in RunUdfReqs : HandlerTurn /\ update_udf(id, req)
    \/ \E id \in 1..MaxUdfId : HandlerTurn /\ delete_udf(id)
    \/ \E req \in RunLayoutReqs : HandlerTurn /\ create_report_layout(req)
    \/ \E id \in 1..MaxLayoutId, req \in RunLayoutReqs : HandlerTurn /\ update_report_layout(id, req)
    \/ \E id \in 1..MaxLayoutId : HandlerTurn /\ delete_report_layout(id)
    \/ \E req \in RunReqs, rnd \in RandomDraws : HandlerTurn /\ run_report(req, rnd)
    \/ get_db_exit

\* Every handler is a bounded loop over stored rows and comes to an end, and
\* the framework resumes every dependency generator it started when the
\* handler has exited.
SpecSession ==
    /\ Init
    /\ [][NextSession]_vars
    /\ WF_vars(HandlerTurn /\ NextRun)
    /\ WF_vars(get_db_exit)

\* A delete_udf and a layout request in flight at the same time, over the
\* UDFs that create_udf stores.  create_udf reads no row before its commit
\* and is one step.
NextRace ==
    \/ \E req \in CrudUdfReqs : create_udf(req)
    \/ \E id \in 1..MaxUdfId : delete_udf_check(id)
    \/ delete_udf_commit
    \/ \E req \in CrudLayoutReqs : create_report_layout_check(req)
    \/ create_report_layout_commit
    \/ \E id \in 1..MaxLayoutId, req \in CrudLayoutReqs : update_report_layout_check(id, req)
    \/ update_report_layout_commit

SpecRace == Init /\ [][NextRace]_vars

\* ===================================================================== claims
\* Attached(udf_id): some association row names the UDF.
Attached(udf_id) == \E k \in 1..Len(report_udfs) : report_udfs[k].udf_id = udf_id

\* C1: for every layout and every UDF attached to it, the UDF's
\* aggregation_level equals the layout's, in every reachable state (also after
\* update_udf on an attached UDF).
C1_AttachedLevelsMatch ==
    \A k \in 1..Len(report_udfs) :
        LET row == report_udfs[k]
        IN (row.udf_id \in DOMAIN udfs /\ row.report_id \in DOMAIN layouts)
           => udfs[row.udf_id].aggregation_level = layouts[row.report_id].aggregation_level

\* C2: a lookup answers the implementation registered under the exact
\* (kind, level) key when there is one, else the one registered under the
\* wildcard (kind, None) key when there is one, else None.
C2_ExactThenWildcardThenNone ==
    last.op = "get_calculation_function" =>
        LET exact == <<last.req.calculation_type, last.req.aggregation_level>>
            wild  == <<last.req.calculation_type, NoneStr>>
            has(key) == key \in RegistryKeys /\ CALCULATIONS[key] # NoneStr
        IN /\ has(exact) => last.result = CALCULATIONS[exact]
           /\ (~has(exact) /\ has(wild)) => last.result = CALCULATIONS[wild]
           /\ (~has(exact) /\ ~has(wild)) => last.result = NoneStr

\* A lookup at a level where the exact and the wildcard key hold different
\* implementations.
C2_Witness ==
    /\ last.op = "get_calculation_function"
    /\ last.req.aggregation_level = "deal"
    /\ last.req.calculation_type \in RegKinds
    /\ CALCULATIONS[<<last.req.calculation_type, "deal">>] # NoneStr
    /\ CALCULATIONS[<<last.req.calculation_type, NoneStr>>] # NoneStr
    /\ CALCULATIONS[<<last.req.calculation_type, "deal">>]
         # CALCULATIONS[<<last.req.calculation_type, NoneStr>>]
    /\ last.result = CALCULATIONS[<<last.req.calculation_type, "deal">>]

\* What a delete_udf step must do, by the state it starts in.
C3_DeleteStep ==
    last'.op = "delete_udf" =>
        LET udf_id == last'.id
        IN /\ (udf_id \in DOMAIN udfs /\ Attached(udf_id))
                => /\ last'.status = 400
                   /\ UNCHANGED <<udfs, layouts, report_udfs>>
           /\ (udf_id \in DOMAIN udfs /\ ~Attached(udf_id))
                => /\ last'.status = 200
                   /\ udfs' = [u \in DOMAIN udfs \ {udf_id} |-> udfs[u]]
                   /\ UNCHANGED <<layouts, report_udfs>>
           /\ (last.op = "delete_udf" /\ last.id = udf_id /\ last.status = 200)
                => /\ last'.status = 404
                   /\ UNCHANGED <<udfs, layouts, report_udfs>>

\* C3: delete_udf of a UDF attached to a layout answers 400 and changes no
\* store; delete_udf of an existing unattached UDF succeeds and removes exactly
\* that UDF; a delete_udf of the same id right after a successful one answers
\* 404.
C3_DeleteUdf == [][C3_DeleteStep]_vars

\* delete_udf has just refused an attached UDF.
C3_Witness ==
    /\ last.op = "delete_udf"
    /\ last.status = 400
    /\ last.id \in DOMAIN udfs
    /\ Attached(last.id)

\* The request names a stored UDF whose level differs from the request's.
HasMismatch(req) ==
    \E k \in 1..Len(req.udf_ids) :
        /\ req.udf_ids[k] \in DOMAIN udfs
        /\ udfs[req.udf_ids[k]].aggregation_level # req.aggregation_level

\* An id that names no UDF stands in udf_ids before any mismatched UDF.
MissingBeforeMismatch(req) ==
    \E k \in 1..Len(req.udf_ids) :
        /\ req.udf_ids[k] \notin DOMAIN udfs
        /\ \A j \in 1..(k - 1) :
              /\ req.udf_ids[j] \in DOMAIN udfs
              /\ udfs[req.udf_ids[j]].aggregation_level = req.aggregation_level

\* A create_report_layout, or an update_report_layout of a stored layout,
\* whose request holds a mismatched UDF.
C4_MismatchStep ==
    /\ last'.op \in {"create_report_layout", "update_report_layout"}
    /\ last'.op = "update_report_layout" => last'.id \in DOMAIN layouts
    /\ HasMismatch(last'.req)

\* C4 as stated: such a request answers 400 and leaves the layout store and
\* the attachments unchanged.
C4_MismatchIs400 ==
    [][C4_MismatchStep => (last'.status = 400 /\ UNCHANGED <<layouts, report_udfs>>)]_vars

\* C4: such a request fails and leaves the layout store and the attachments
\* unchanged; the status is 400, except that it is 404 when the primary model
\* is registered, the level is given and udf_ids names a non-existent UDF
\* before the first mismatched one.
C4_MismatchRejected ==
    [][C4_MismatchStep =>
         /\ UNCHANGED <<layouts, report_udfs>>
         /\ last'.status =
              IF /\ last'.req.primary_model \in MODEL_REGISTRY
                 /\ StrTruthy(last'.req.aggregation_level)
                 /\ MissingBeforeMismatch(last'.req)
              THEN 404 ELSE 400]_vars

\* update_report_layout has just refused, with 400, a request that differs
\* from the stored layout and holds a mismatched UDF.
C4_Witness ==
    /\ last.op = "update_report_layout"
    /\ last.status = 400
    /\ last.id \in DOMAIN layouts
    /\ last.req.primary_model \in MODEL_REGISTRY
    /\ HasMismatch(last.req)
    /\ layouts[last.id].aggregation_level # last.req.aggregation_level

\* Some field of the request has a non-empty source_field that is no column
\* of the request's base_model.
BadSourceField(req) ==
    LET names == IF req.base_model \in MODEL_REGISTRY
                 THEN Range(Columns(req.base_model)) ELSE {}
    IN \E k \in 1..Len(req.fields) :
          /\ req.fields[k].source_field \notin {NoneStr, ""}
          /\ req.fields[k].source_field \notin names

C5_BadSourceStep ==
    /\ last'.op \in {"create_udf", "update_udf"}
    /\ last'.op = "update_udf" => last'.id \in DOMAIN udfs
    /\ BadSourceField(last'.req)

C5_StoredSourceFieldsValid ==
    \A u \in DOMAIN udfs :
        \A k \in 1..Len(udfs[u].udf_json.fields) :
            LET source_field == udfs[u].udf_json.fields[k].source_field
            IN source_field \notin {NoneStr, ""}
               => /\ udfs[u].base_model \in MODEL_REGISTRY
                  /\ source_field \in Range(Columns(udfs[u].base_model))

\* C5: create_udf, and update_udf of a stored UDF, with a field whose
\* non-empty source_field is no attribute of the requested base_model answers
\* 400 and leaves the UDF store unchanged; and in every reachable state every
\* stored field's source_field, when set, is a column of the stored base_model.
C5_SourceFieldValidated ==
    /\ []C5_StoredSourceFieldsValid
    /\ [][C5_BadSourceStep => (last'.status = 400 /\ UNCHANGED udfs)]_vars

\* update_udf has just refused a request, sound in model and level, for a
\* field source that its base_model lacks.
C5_Witness ==
    /\ last.op = "update_udf"
    /\ last.status = 400
    /\ last.id \in DOMAIN udfs
    /\ last.req.base_model \in MODEL_REGISTRY
    /\ StrTruthy(last.req.aggregation_level)
    /\ BadSourceField(last.req)

\* ---- claims about run_report.  In a state whose last call is run_report the
\* stores are those the run read.
\* The last call ran a stored layout of a registered model and its base query
\* executed.
Ran ==
    /\ last.op = "run_report"
    /\ last.id \in DOMAIN layouts
    /\ layouts[last.id].primary_model \in MODEL_REGISTRY
    /\ ~FilterRaises(layouts[last.id].primary_model, last.req.filters)

RanVisits == Visits(LayoutUdfs(report_udfs, last.id))
RanBase == BaseResults(layouts[last.id].primary_model, last.req.filters, 1)

\* The field of a visit is requested: layout_json.fields holds its bare or its
\* qualified name.
Wanted(v) ==
    /\ layouts[last.id].layout_json.has_fields
    /\ \/ VisitField(v).name \in layouts[last.id].layout_json.fields
       \/ (udfs[v.udf_id].name \o "." \o VisitField(v).name)
             \in layouts[last.id].layout_json.fields

\* No implementation is registered for the visit's (kind, level), exact or
\* wildcard.
Unregistered(v) ==
    \A key \in {<<VisitField(v).calculation_type, udfs[v.udf_id].aggregation_level>>,
                <<VisitField(v).calculation_type, NoneStr>>} :
        key \notin RegistryKeys \/ CALCULATIONS[key] = NoneStr

\* The registered implementation of the visit raises on the given record.
ImplRaises(udf_id, k, rec_no) ==
    LET field == udfs[udf_id].udf_json.fields[k]
        calc_func == get_calculation_function(field.calculation_type,
                                              udfs[udf_id].aggregation_level)
    IN /\ calc_func # NoneStr
       /\ Call(calc_func, Record(layouts[last.id].primary_model, rec_no),
               udfs[udf_id].base_model, field.source_field, field.calculation_params,
               last.req.cycle_code).t = "raise"

\* C6: when a requested field has no registered implementation, run_report
\* answers without error with a row for every base record, and the field's
\* value in every row is 0.
C6_UnregisteredYieldsZero ==
    Ran => \A i \in 1..Len(RanVisits) :
              (Wanted(RanVisits[i]) /\ Unregistered(RanVisits[i]))
              => /\ last.status = 200
                 /\ Len(last.rows) = Len(RanBase)
                 /\ \A j \in 1..Len(last.rows) :
                       /\ VisitKey(RanVisits[i]) \in DOMAIN last.rows[j]
                       /\ last.rows[j][VisitKey(RanVisits[i])] = I(0)

\* C7: run_report answers with exactly one row per record of the base query,
\* in the query's order, whatever the calculations do.
C7_OneRowPerBaseRecord ==
    Ran => /\ last.status = 200
           /\ Len(last.rows) = Len(RanBase)
           /\ \A j \in 1..Len(RanBase) :
                 \A col \in Range(Columns(layouts[last.id].primary_model)) :
                    /\ col \in DOMAIN last.rows[j]
                    /\ last.rows[j][col] = Table(layouts[last.id].primary_model)[RanBase[j]][col]

\* A run over two base records in which an implementation raised.
C7_Witness ==
    /\ Ran
    /\ last.status = 200
    /\ Len(last.rows) = 2
    /\ \E e \in last.evals : ImplRaises(e.udf_id, e.k, e.rec)

\* C8: when the implementation of a field raises, the value stored for the
\* field is 0 for sum, average, count, min, max and custom, and null for
\* mapping.
C8_FailureYieldsKindDefault ==
    Ran => \A e \in last.evals :
              ImplRaises(e.udf_id, e.k, e.rec)
              => e.value = IF udfs[e.udf_id].udf_json.fields[e.k].calculation_type = "mapping"
                           THEN Null ELSE I(0)

\* C9: a field is calculated and placed in the row exactly when its bare or
\* its qualified name is in layout_json.fields; otherwise no calculation is
\* made for it and the row has no key for it.
C9_RequestedExactly ==
    (Ran /\ last.status = 200) =>
        \A i \in 1..Len(RanVisits), j \in 1..Len(last.rows) :
            LET v == RanVisits[i]
                calculated == \E e \in last.evals :
                                 e.rec = RanBase[j] /\ e.udf_id = v.udf_id /\ e.k = v.k
            IN /\ Wanted(v) => (calculated /\ VisitKey(v) \in DOMAIN last.rows[j])
               /\ ~Wanted(v) => (~calculated /\ VisitKey(v) \notin DOMAIN last.rows[j])

\* C10: every calculated value stands in its row under "<udf_name>.<field_name>",
\* and two requested fields of the same name in two distinct UDFs of the
\* layout have two separate entries, neither a base column.
C10_SeparateEntries ==
    (Ran /\ last.status = 200) =>
        /\ \A e \in last.evals, j \in 1..Len(last.rows) :
              e.rec = RanBase[j]
              => /\ e.key = udfs[e.udf_id].name \o "."
                              \o udfs[e.udf_id].udf_json.fields[e.k].name
                 /\ e.key \in DOMAIN last.rows[j]
                 /\ last.rows[j][e.key] = e.value
        /\ \A i1 \in 1..Len(RanVisits), i2 \in 1..Len(RanVisits) :
              LET v1 == RanVisits[i1]
                  v2 == RanVisits[i2]
              IN (/\ v1.udf_id # v2.udf_id
                  /\ VisitField(v1).name = VisitField(v2).name
                  /\ Wanted(v1) /\ Wanted(v2))
                 => /\ VisitKey(v1) # VisitKey(v2)
                    /\ VisitKey(v1) \notin Range(Columns(layouts[last.id].primary_model))

\* ------------------------------------------------------------------------
\* A database file outlives the process: app.db may hold a layout that was
\* stored while the registry still held a model it holds no longer.
StaleLayout == ReportLayoutModel(LayoutReq("retired", "deal", <<>>, FieldsJson({"c"})))

InitStale ==
    /\ udfs = <<>>
    /\ layouts = <<StaleLayout>>
    /\ report_udfs = <<>>
    /\ CALCULATIONS = BuiltinRegistry
    /\ last = Resp("init", 0, NoReq, 0)
    /\ sessions = NoSessions
    /\ txns = NoTxns

SpecStale == InitStale /\ [][NextRun]_vars

\* C11: run_report answers 404 when the layout id names no layout, and 400
\* when the layout exists but its primary_model is not in the Model Registry;
\* in both cases no base record is fetched and no calculation is invoked.
C11_RunRejectedEarly ==
    last.op = "run_report" =>
        /\ last.id \notin DOMAIN layouts
             => (last.status = 404 /\ ~last.queried /\ last.evals = {} /\ last.rows = <<>>)
        /\ (last.id \in DOMAIN layouts
            /\ layouts[last.id].primary_model \notin MODEL_REGISTRY)
             => (last.status = 400 /\ ~last.queried /\ last.evals = {} /\ last.rows = <<>>)

\* A run of a stored layout whose primary model the registry lacks.
C11_Witness ==
    /\ last.op = "run_report"
    /\ last.id \in DOMAIN layouts
    /\ layouts[last.id].primary_model \notin MODEL_REGISTRY
    /\ last.status = 400

\* C12: in a run of a stored layout of a registered model, every filter whose
\* field is an attribute of the primary entity (a column or a relationship)
\* restricts the rows to the records with that attribute equal to the value,
\* and every filter that names no attribute of the entity is ignored: the
\* run raises no error and drops no record for it.
C12_FiltersRestrictOrIgnored ==
    (/\ last.op = "run_report"
     /\ last.id \in DOMAIN layouts
     /\ layouts[last.id].primary_model \in MODEL_REGISTRY)
    => LET model_id == layouts[last.id].primary_model
           filters == last.req.filters
           matches(row) ==
               \A k \in 1..Len(filters) :
                   filters[k].field \in Range(Columns(model_id))
                   => row[filters[k].field] = filters[k].value
           expected == {Table(model_id)[k]["id"] :
                           k \in {j \in 1..Len(Table(model_id)) :
                                     matches(Table(model_id)[j])}}
       IN /\ last.status = 200
          /\ {last.rows[j]["id"] : j \in 1..Len(last.rows)} = expected

\* ------------------------------------------------------------------------
\* The calculation implementations on their own: an input is one call
\* calc_func(db, base_record, base_model, source_field, params, cycle_code),
\* and the step evaluates it.
CalcRecords ==
    UNION {{Record(m, k) : k \in 1..Len(Table(m))} : m \in MODEL_REGISTRY}

AggregateParams ==
    {[EmptyParams EXCEPT !.related_model = m, !.field_to_sum = f, !.field_to_average = f] :
        m \in {Missing, "tranche", "cashflow", "retired"},
        f \in {Missing, "amount", "Rate", "bogus", "tranche_name"}}

DirectParams ==
    {[EmptyParams EXCEPT !.field_to_min = f, !.field_to_max = f] :
        f \in {"amount", "", "Rate", "bogus", "deal_"}}

FormulaParams ==
    {[EmptyParams EXCEPT !.formula = f] :
        f \in {"1 + 1", ":principal + :interest", "principal + interest + fees",
               ":principal + :interest + :fees + 0 * (:id + :tranche_id + :payment_date)"}}

MappingParams ==
    {StaticParams("N/A"), StaticParams(""),
     [EmptyParams EXCEPT !.mapping_type = "static"],
     [EmptyParams EXCEPT !.mapping_value = "N/A"],
     [EmptyParams EXCEPT !.mapping_type = "lookup", !.mapping_value = "N/A"],
     [EmptyParams EXCEPT !.mapping_type = "model_field", !.source_model = "tranche",
                         !.source_field = "seniority", !.relation_field = "deal_id"],
     [EmptyParams EXCEPT !.mapping_type = "model_field", !.source_model = "tranche",
                         !.source_field = "seniority"]}

CalcParams ==
    {NullParams, EmptyParams} \cup AggregateParams \cup DirectParams \cup FormulaParams
    \cup MappingParams

CalcFuncs == {BuiltinRegistry[key] : key \in RegistryKeys} \ {NoneStr}

CalcInputs ==
    [calc_func : CalcFuncs, base_record : CalcRecords, base_model : {"deal", "tranche", "Deal"},
     source_field : {NoneStr, "", "amount", "total_amount"}, params : CalcParams,
     cycle_code : {NoneStr, "12023"}]

call_calculation ==
    /\ last.op = "call"
    /\ last' = [Resp(last.req.calc_func, 0, last.req, 0)
                EXCEPT !.result = Call(last.req.calc_func, last.req.base_record,
                                       last.req.base_model, last.req.source_field,
                                       last.req.params, last.req.cycle_code)]
    /\ UNCHANGED <<udfs, layouts, report_udfs, CALCULATIONS, sessions, txns>>

InitCalc ==
    /\ udfs = <<>>
    /\ layouts = <<>>
    /\ report_udfs = <<>>
    /\ CALCULATIONS = BuiltinRegistry
    /\ last \in {Resp("call", 0, inp, 0) : inp \in CalcInputs}
    /\ sessions = NoSessions
    /\ txns = NoTxns

NextCalc == call_calculation

SpecCalc == InitCalc /\ [][NextCalc]_vars

\* The implementations that read the base record's id, called on a record
\* whose id is 0 or None (getattr(base_record, "id", None) is None as well
\* for a record without the attribute) and, for comparison, on a stored one.
\* A cash flow with tranche_id 0 is stored.
FalsyIdRecords ==
    {[model |-> "tranche", row |-> [Tranches[1] EXCEPT !.id = v]] : v \in {I(0), Null}}

FalsyIdParams ==
    {NullParams, EmptyParams}
    \cup {[EmptyParams EXCEPT !.related_model = m, !.field_to_sum = f, !.field_to_average = f] :
            m \in {Missing, "cashflow", "tranche"}, f \in {Missing, "principal", "bogus"}}
    \cup {[EmptyParams EXCEPT !.mapping_type = "model_field", !.source_model = "cashflow",
                              !.source_field = f, !.relation_field = r] :
            f \in {"principal", "bogus"}, r \in {Missing, "tranche_id"}}

FalsyIdInputs ==
    [calc_func : {"sum_calculation", "average_calculation", "count_calculation",
                  "mapping_calculation"},
     base_record : FalsyIdRecords \cup {Record("tranche", 1)},
     base_model : {"tranche", "Tranche"}, source_field : {NoneStr, "amount"},
     params : FalsyIdParams, cycle_code : {NoneStr, "12023"}]

InitFalsyId ==
    /\ udfs = <<>>
    /\ layouts = <<>>
    /\ report_udfs = <<>>
    /\ CALCULATIONS = BuiltinRegistry
    /\ last \in {Resp("call", 0, inp, 0) : inp \in FalsyIdInputs}
    /\ sessions = NoSessions
    /\ txns = NoTxns

SpecFalsyId == InitFalsyId /\ [][NextCalc]_vars

\* The relationship inference on its own, for classes with any set of
\* attribute names: Init draws the base_model string and the names the
\* related class exposes, the step runs the inference up to the query.
InferModels == {"deal", "Deal", "DEAL"}
InferAttrs == {"deal_id", "Deal_id", "id_deal", "id_Deal", "amount"}
InferInputs == [base_model : InferModels, attrs : SUBSET InferAttrs]

infer_relationship ==
    /\ last.op = "infer"
    /\ last' = [Resp("relationship_field", 0, last.req, 0)
                EXCEPT !.result =
                    LET field == first_possible_field(last.req.attrs, last.req.base_model)
                    IN [relationship_field |-> field, returns_zero |-> field = NoneStr]]
    /\ UNCHANGED <<udfs, layouts, report_udfs, CALCULATIONS, sessions, txns>>

InitInfer ==
    /\ udfs = <<>>
    /\ layouts = <<>>
    /\ report_udfs = <<>>
    /\ CALCULATIONS = BuiltinRegistry
    /\ last \in {Resp("infer", 0, inp, 0) : inp \in InferInputs}
    /\ sessions = NoSessions
    /\ txns = NoTxns

NextInfer == infer_relationship

SpecInfer == InitInfer /\ [][NextInfer]_vars

\* calculate_udf on its own: Init draws the arguments, the kind and level
\* among them registered and unregistered ones, and the draw of the random
\* module; the step makes the call.
UdfCalcKinds == Kinds \cup {"median", NoneStr}
UdfCalcLevels == {"deal", "group", "tranche", "portfolio"}
UdfCalcParams ==
    {NullParams, EmptyParams, SumParams, [EmptyParams EXCEPT !.formula = "1 + 1"]}

UdfCalcInputs ==
    [base_record : {Record("deal", 1), Record("tranche", 3), Record("cashflow", 1)},
     base_model : {"deal", "tranche"}, source_field : {NoneStr, "total_amount", "amount"},
     calculation_type : UdfCalcKinds, params : UdfCalcParams, cycle_code : {"12023"},
     aggregation_level : UdfCalcLevels, rnd : RandomDraws]

call_calculate_udf ==
    /\ last.op = "call_udf"
    /\ last' = [Resp("calculate_udf", 0, last.req, 0)
                EXCEPT !.result = calculate_udf(last.req.base_record, last.req.base_model,
                                                last.req.source_field,
                                                last.req.calculation_type, last.req.params,
                                                last.req.cycle_code,
                                                last.req.aggregation_level, last.req.rnd)]
    /\ UNCHANGED <<udfs, layouts, report_udfs, CALCULATIONS, sessions, txns>>

InitUdfCalc ==
    /\ udfs = <<>>
    /\ layouts = <<>>
    /\ report_udfs = <<>>
    /\ CALCULATIONS = BuiltinRegistry
    /\ last \in {Resp("call_udf", 0, inp, 0) : inp \in UdfCalcInputs}
    /\ sessions = NoSessions
    /\ txns = NoTxns

NextUdfCalc == call_calculate_udf

SpecUdfCalc == InitUdfCalc /\ [][NextUdfCalc]_vars

\* The total of column col over the first k rows of a table whose column fk
\* holds the value id.
RECURSIVE TotalWhere(_, _, _, _, _)
TotalWhere(model_id, fk, id, col, k) ==
    IF k = 0 THEN 0
    ELSE TotalWhere(model_id, fk, id, col, k - 1)
         + (IF Table(model_id)[k][fk] = id /\ Table(model_id)[k][col].t = "int"
            THEN Table(model_id)[k][col].i ELSE 0)

\* C13: sum over a related entity is the sum of field_to_sum over exactly the
\* related rows whose inferred foreign key equals the base record's id,
\* whatever the cycle code when the related entity has no cycle_code; for the
\* deal with id 1 and its tranches of amounts 400 and 600 it is 1000.
C13_SumOverRelatedRows ==
    (last.op = "sum_calculation" /\ ~last.req.params.isnull) =>
        LET related == Get(last.req.params.related_model, "tranche")
            field == Get(last.req.params.field_to_sum, "amount")
            fk == relationship_field(related, last.req.base_model)
        IN /\ (/\ related \in MODEL_REGISTRY
               /\ fk \in Range(Columns(related))
               /\ field \in Range(Columns(related))
               /\ "cycle_code" \notin Range(Columns(related)))
              => last.result = I(TotalWhere(related, fk, last.req.base_record.row["id"],
                                            field, Len(Table(related))))
           /\ (/\ last.req.base_record = Record("deal", 1)
               /\ last.req.base_model = "deal"
               /\ related = "tranche" /\ field = "amount")
              => last.result = I(1000)

\* The sum for deal 1 over its tranches, asked with a cycle code.
C13_Witness ==
    /\ last.op = "sum_calculation"
    /\ last.req.base_record = Record("deal", 1)
    /\ last.req.base_model = "deal"
    /\ last.req.params.related_model = "tranche"
    /\ last.req.params.field_to_sum = "amount"
    /\ last.req.cycle_code = "12023"
    /\ last.result = I(1000)

\* C14: min and max return the value of one attribute of the base record:
\* the one named by field_to_min / field_to_max, or by source_field when that
\* parameter is absent or empty.  On a record with amount 250 and
\* field_to_max = amount the result is 250; on a record that lacks the named
\* attribute the similar-name match decides (a deal has no "amount", and
\* total_amount is read).
C14_DirectAttribute ==
    (last.op \in {"min_calculation", "max_calculation"} /\ ~last.req.params.isnull) =>
        LET param == IF last.op = "min_calculation" THEN last.req.params.field_to_min
                     ELSE last.req.params.field_to_max
            named == IF param \in {Missing, NoneStr, ""} THEN last.req.source_field
                     ELSE param
            record == last.req.base_record
        IN /\ named \in Range(Columns(record.model)) => last.result = record.row[named]
           /\ (record = Record("tranche", 3) /\ param = "amount") => last.result = I(250)
           /\ (record.model = "deal" /\ named = "amount")
                => last.result = record.row["total_amount"]

\* max on a deal, asked for "amount", has read total_amount.
C14_Witness ==
    /\ last.op = "max_calculation"
    /\ last.req.base_record = Record("deal", 1)
    /\ last.req.params.field_to_max = "amount"
    /\ last.req.source_field = "total_amount"
    /\ last.result = I(1000)

\* C15: a mapping field with mapping_type = static returns the configured
\* mapping_value verbatim, whatever the base record, the base model, the
\* source field and the cycle code.
C15_StaticMappingVerbatim ==
    (/\ last.op = "mapping_calculation"
     /\ ~last.req.params.isnull
     /\ last.req.params.mapping_type = "static"
     /\ last.req.params.mapping_value # Missing)
    => last.result = S(last.req.params.mapping_value)

\* A static mapping evaluated on a cash flow, without cycle code and with a
\* base model and a source field that name nothing of the record.
C15_Witness ==
    /\ last.op = "mapping_calculation"
    /\ last.req.params = StaticParams("N/A")
    /\ last.req.base_record.model = "cashflow"
    /\ last.req.base_model = "Deal"
    /\ last.req.source_field = "total_amount"
    /\ last.req.cycle_code = NoneStr
    /\ last.result = S("N/A")

\* C16: in every reachable state of the UDF store, and so after every
\* successful create_udf and update_udf, the name, base_model and
\* aggregation_level in a UDF's JSON blob equal its columns of those names.
C16_BlobMatchesColumns ==
    \A u \in DOMAIN udfs :
        /\ udfs[u].udf_json.name = udfs[u].name
        /\ udfs[u].udf_json.base_model = udfs[u].base_model
        /\ udfs[u].udf_json.aggregation_level = udfs[u].aggregation_level

\* update_udf has just moved a stored UDF to another base model or level.
C16_Witness ==
    /\ last.op = "update_udf"
    /\ last.status = 200
    /\ last.id \in DOMAIN udfs
    /\ udfs[last.id].aggregation_level = "tranche"
    /\ udfs[last.id].udf_json.aggregation_level = "tranche"
    /\ \E u \in DOMAIN udfs : u # last.id /\ udfs[u].aggregation_level = "deal"

\* ------------------------------------------------------------------------
\* C17: every request that acquires a session through get_db eventually
\* closes it, exactly once, whichever way its handler is left (return,
\* HTTPException, uncaught exception): a session is never closed twice, a
\* request that is over has closed its session, and a yielded session leads
\* to its close.
C17_ClosedOnce ==
    \A k \in 1..MaxRequests :
        /\ sessions.closes[k] <= 1
        /\ (k < sessions.n \/ (k = sessions.n /\ sessions.phase = "done"))
              => sessions.closes[k] = 1

C17_SessionReleased ==
    /\ []C17_ClosedOnce
    /\ \A k \in 1..MaxRequests :
          (sessions.n = k /\ sessions.phase = "yielded") ~> (sessions.closes[k] = 1)

\* Requests left in each of the three ways, every session closed.
C17_Witness ==
    /\ sessions.phase = "done"
    /\ {sessions.exit[k] : k \in 1..MaxRequests} = {"return", "HTTPException", "Exception"}
    /\ \A k \in 1..MaxRequests : sessions.closes[k] = 1

\* ------------------------------------------------------------------------
\* C18: run_report is deterministic: against the same stores and registry a
\* request has one response, whatever random.uniform and random.randint
\* would draw, also when a requested field has no registered implementation.
\* A step that is a run of a request under one draw is a run of that request
\* under every draw.
C18_Deterministic ==
    [][last'.op = "run_report"
         => \A rnd \in RandomDraws : run_report(last'.req, rnd)]_vars

\* A run answered rows and computed both a field with a registered
\* implementation and a field without one.
C18_Witness ==
    /\ Ran
    /\ last.status = 200
    /\ Len(last.rows) > 0
    /\ \E i \in 1..Len(RanVisits) : Wanted(RanVisits[i]) /\ Unregistered(RanVisits[i])
    /\ \E i \in 1..Len(RanVisits) : Wanted(RanVisits[i]) /\ ~Unregistered(RanVisits[i])

\* ------------------------------------------------------------------------
\* C19: every built-in calculation implementation returns a value and raises
\* nothing past its own boundary, for every base record and every parameter
\* bag, a null params object and a min/max call without any field included.
C19_ImplementationsNeverRaise ==
    last.op \in CalcFuncs => last.result.t # "raise"

\* ------------------------------------------------------------------------
\* C20: in every state reached by UDF and Report Layout handlers run one
\* after another, every UDF id held in a layout's attachment names a stored
\* UDF (and every attachment belongs to a stored layout).
C20_NoDanglingAttachment ==
    \A k \in 1..Len(report_udfs) :
        /\ report_udfs[k].udf_id \in DOMAIN udfs
        /\ report_udfs[k].report_id \in DOMAIN layouts

\* A UDF has just been deleted while a layout holds an attachment.
C20_Witness ==
    /\ last.op = "delete_udf"
    /\ last.status = 200
    /\ Len(report_udfs) > 0

\* ------------------------------------------------------------------------
\* C21: the foreign-key attribute of the related entity is the first that
\* exists among '<base_model>_id', '<base_model.lower()>_id',
\* 'id_<base_model>', 'id_<base_model.lower()>' in that order, and when none
\* of the four exists the calculation returns 0 before any query.
C21_FirstCandidateWins ==
    last.op = "relationship_field" =>
        LET b == last.req.base_model
            cand == <<b \o "_id", Lower(b) \o "_id", "id_" \o b, "id_" \o Lower(b)>>
        IN /\ \A k \in 1..4 :
                 (cand[k] \in last.req.attrs /\ \A j \in 1..(k - 1) : cand[j] \notin last.req.attrs)
                    => (last.result.relationship_field = cand[k] /\ ~last.result.returns_zero)
           /\ (\A k \in 1..4 : cand[k] \notin last.req.attrs)
                 => (last.result.returns_zero /\ last.result.relationship_field = NoneStr)

\* A class exposing only 'id_<base_model.lower()>' of the four was matched
\* through the last candidate.
C21_Witness ==
    /\ last.op = "relationship_field"
    /\ last.req.base_model = "Deal"
    /\ last.req.attrs = {"id_deal", "amount"}
    /\ last.result.relationship_field = "id_deal"

\* ------------------------------------------------------------------------
\* The attributes a mapped class declares, in the order of its class body:
\* the columns, then the relationships.
Declared(model_id) ==
    Columns(model_id) \o (CASE model_id = "deal" -> <<"tranches">>
                            [] model_id = "tranche" -> <<"deal", "cashflows">>
                            [] model_id = "cashflow" -> <<"tranche">>)

\* C22: when the requested field name is no attribute of the candidate
\* entity, the attribute used is the first, in declaration order, of those
\* whose name contains the requested name or ends with it, case-insensitively;
\* when no attribute matches the result is 0.
C22_FuzzyFirstDeclared ==
    /\ (last.op \in {"min_calculation", "max_calculation"} /\ ~last.req.params.isnull) =>
          LET param == IF last.op = "min_calculation" THEN last.req.params.field_to_min
                       ELSE last.req.params.field_to_max
              named == IF param \in {Missing, NoneStr, ""} THEN last.req.source_field
                       ELSE param
              record == last.req.base_record
              matching == SimilarIn(Declared(record.model), named)
          IN (StrTruthy(named) /\ ~HasAttr(record.model, named)) =>
                /\ matching # <<>> => last.result = GetAttr(record, matching[1])
                /\ similar_fields(record.model, named) = <<>> => last.result = I(0)
    /\ (last.op = "sum_calculation" /\ ~last.req.params.isnull) =>
          LET related == Get(last.req.params.related_model, "tranche")
              named == Get(last.req.params.field_to_sum, "amount")
              fk == IF related \in MODEL_REGISTRY
                    THEN relationship_field(related, last.req.base_model) ELSE NoneStr
              matching == IF related \in MODEL_REGISTRY
                          THEN SimilarIn(Declared(related), named) ELSE <<>>
          IN (/\ related \in MODEL_REGISTRY
              /\ fk \in Range(Columns(related))
              /\ ~HasAttr(related, named)) =>
                /\ (matching # <<>> /\ matching[1] \in Range(Columns(related)))
                      => last.result = I(TotalWhere(related, fk,
                                                    last.req.base_record.row["id"],
                                                    matching[1], Len(Table(related))))
                /\ similar_fields(related, named) = <<>> => last.result = I(0)

\* ------------------------------------------------------------------------
\* C24: custom returns 0 when params has no formula; otherwise it returns the
\* value of the formula for the record, every column of the record being
\* available to the formula by name: 'principal + interest + fees' on a cash
\* flow yields the sum of the three columns, and so does a formula that
\* names a subset of the columns as bind parameters.
C24_FormulaOverColumns ==
    (last.op = "custom_calculation" /\ ~last.req.params.isnull) =>
        LET formula == Get(last.req.params.formula, NoneStr)
            row == last.req.base_record.row
        IN /\ ~StrTruthy(formula) => last.result = I(0)
           /\ (last.req.base_record.model = "cashflow"
               /\ formula = "principal + interest + fees")
                 => last.result = I(row["principal"].i + row["interest"].i + row["fees"].i)
           /\ (last.req.base_record.model = "cashflow"
               /\ formula = ":principal + :interest")
                 => last.result = I(row["principal"].i + row["interest"].i)

\* ------------------------------------------------------------------------
\* C23: every row run_report returns has a key for every column of the
\* primary entity, holding the base record's value, whatever names
\* layout_json.fields lists; the keys of a row are exactly those columns and
\* the qualified keys of the requested UDF fields.
C23_FullProjection ==
    (Ran /\ last.status = 200) =>
        \A j \in 1..Len(last.rows) :
            LET columns == Range(Columns(layouts[last.id].primary_model))
            IN /\ DOMAIN last.rows[j] =
                    columns \cup {udfs[RanVisits[i].udf_id].name \o "."
                                     \o VisitField(RanVisits[i]).name :
                                  i \in {n \in 1..Len(RanVisits) : Wanted(RanVisits[n])}}
               /\ \A col \in columns :
                     last.rows[j][col] = Table(layouts[last.id].primary_model)[RanBase[j]][col]

\* A run returned rows for a layout whose fields name no column and that
\* requests a UDF field.
C23_Witness ==
    /\ Ran
    /\ last.status = 200
    /\ Len(last.rows) > 0
    /\ layouts[last.id].layout_json.has_fields
    /\ layouts[last.id].layout_json.fields
          \cap Range(Columns(layouts[last.id].primary_model)) = {}
    /\ \E i \in 1..Len(RanVisits) : Wanted(RanVisits[i])
    /\ \E key \in DOMAIN last.rows[1] : key \notin Range(Columns(layouts[last.id].primary_model))

\* ------------------------------------------------------------------------
\* C25: the Calculation Registry is the one the module load left: no UDF or
\* layout handler, no run_report with its calculate_udf and implementation
\* calls adds, removes or replaces an entry.
C25_BuiltinRegistry == CALCULATIONS = BuiltinRegistry

C25_RegistryFrozen ==
    /\ []C25_BuiltinRegistry
    /\ [][CALCULATIONS' = CALCULATIONS]_vars

\* A run has looked implementations up in the registry and called them.
C25_Witness ==
    /\ Ran
    /\ last.status = 200
    /\ \E e \in last.evals :
          get_calculation_function(udfs[e.udf_id].udf_json.fields[e.k].calculation_type,
                                   udfs[e.udf_id].aggregation_level) # NoneStr
    /\ CALCULATIONS = BuiltinRegistry

\* ------------------------------------------------------------------------
\* C26: the rows of a run do not depend on the order in which the records
\* and the fields of a record are evaluated: whichever of the calculation
\* calls of a record is made last, every key of the row holds the same
\* value, so the value a call computed for a key is the value any other
\* call of that record computed for it, and the one the row holds.
C26_OrderIndependent ==
    (Ran /\ last.status = 200) =>
        \A j \in 1..Len(last.rows) :
            \A e1 \in last.evals, e2 \in last.evals :
                (e1.rec = RanBase[j] /\ e2.rec = RanBase[j] /\ e1.key = e2.key)
                   => (e1.value = e2.value /\ last.rows[j][e1.key] = e1.value)

\* ------------------------------------------------------------------------
\* C27: with the built-in registry, a calculate_udf call for which the
\* registry lookup finds no implementation returns exactly 0: the legacy
\* branches that draw random values or execute SQL built from the formula
\* string are never taken.
C27_FallbackIsZero ==
    (/\ last.op = "calculate_udf"
     /\ get_calculation_function(last.req.calculation_type,
                                 last.req.aggregation_level) = NoneStr)
    => last.result = I(0)

\* A sum asked at the tranche level, where no sum is registered, came back
\* as 0.
C27_Witness ==
    /\ last.op = "calculate_udf"
    /\ last.req.calculation_type = "sum"
    /\ last.req.aggregation_level = "tranche"
    /\ last.req.base_model = "deal"
    /\ last.req.source_field = "total_amount"
    /\ get_calculation_function("sum", "tranche") = NoneStr
    /\ last.result = I(0)

\* ------------------------------------------------------------------------
\* C28: when a delete_udf request and a create_report_layout or
\* update_report_layout request run at the same time in separate sessions,
\* each with its check and its commit as separate steps, no stored layout
\* is ever attached to a UDF that is no longer stored.
C28_NoLayoutOnDeletedUdf ==
    \A l \in DOMAIN layouts :
        \A u \in Range(LayoutUdfs(report_udfs, l)) : u \in DOMAIN udfs

\* ------------------------------------------------------------------------
\* C29: a stored UDF is deletable exactly when no stored layout attaches
\* it.  A deleted layout attaches nothing any more, an updated layout
\* attaches exactly the UDFs of its new udf_ids, and delete_udf of a stored
\* UDF succeeds if and only if no stored layout attaches it at that time.
AttachedBy(report_id, udf_id) == udf_id \in Range(LayoutUdfs(report_udfs, report_id))

C29_Step ==
    /\ (last'.op = "delete_report_layout" /\ last'.status = 200) =>
          \A k \in 1..Len(report_udfs') : report_udfs'[k].report_id # last'.id
    /\ (last'.op = "update_report_layout" /\ last'.status = 200) =>
          \A u \in 1..MaxUdfId :
              (\E k \in 1..Len(report_udfs') : report_udfs'[k] = [report_id |-> last'.id, udf_id |-> u])
                  <=> u \in Range(last'.req.udf_ids)
    /\ (last'.op = "delete_udf" /\ last'.id \in DOMAIN udfs) =>
          (last'.status = 200 <=> ~\E l \in DOMAIN layouts : AttachedBy(l, last'.id))

C29_DeletableWhenUnattached == [][C29_Step]_vars

\* A UDF has just been deleted while a layout is stored that attaches
\* another UDF and not this one.
C29_Witness ==
    /\ last.op = "delete_udf"
    /\ last.status = 200
    /\ \E l \in DOMAIN layouts : Len(LayoutUdfs(report_udfs, l)) > 0 /\ ~AttachedBy(l, last.id)

\* ------------------------------------------------------------------------
\* C30: called with a parameter bag on a base record whose id is None or 0,
\* sum, average and count return 0 and mapping in model_field mode returns
\* null, also when stored related rows carry that id as their foreign key.
C30_FalsyIdShortCircuits ==
    (/\ last.op \in {"sum_calculation", "average_calculation", "count_calculation",
                     "mapping_calculation"}
     /\ ~last.req.params.isnull
     /\ ~Truthy(last.req.base_record.row["id"])) =>
        IF last.op = "mapping_calculation"
        THEN Get(last.req.params.mapping_type, "static") = "model_field" => last.result = Null
        ELSE last.result = I(0)

\* sum over the cash flows of a tranche record with id 0 has returned 0
\* while a stored cash flow with principal 50 has tranche_id 0.
C30_Witness ==
    /\ last.op = "sum_calculation"
    /\ last.req.base_record.row["id"] = I(0)
    /\ last.req.base_model = "tranche"
    /\ last.req.params.related_model = "cashflow"
    /\ last.req.params.field_to_sum = "principal"
    /\ TotalWhere("cashflow", "tranche_id", I(0), "principal", Len(CashFlows)) = 50
    /\ last.result = I(0)

====
